---- MODULE Spec2Model ----
(***************************************************************************)
(* Clinical-trial data-quality pipeline of the Nest repository:            *)
(*   ingestion (base/utils/excel_parser.py), the DQI engine                *)
(*   (base/utils/dqi_calculator.py), the alerting engine and coordinators  *)
(*   (base/tasks.py), the status aggregator (base/models.py) and the       *)
(*   resolution views (base/views.py).                                     *)
(*                                                                         *)
(* Tables are sequences of rows; a row's primary key is its index.         *)
(* Scores are integers: sub-scores and Site.dqi_score in hundredths of a   *)
(* point (round(x, 2)), the unrounded weighted sum in 1/10000 of a point.  *)
(***************************************************************************)
EXTENDS Integers, Sequences, FiniteSets, TLC

VARIABLES
    sites,      \* Site rows
    patients,   \* Patient rows
    visits,     \* Visit rows
    forms,      \* Form rows
    queries,    \* Query rows
    labs,       \* LabData rows
    codings,    \* CodingIssue rows
    alerts,     \* Alert rows
    history,    \* DQIHistory rows, in order of creation
    last,       \* the last completed call: its name, arguments and result
    uploads,    \* number of ExcelUpload files handed to the pipeline so far
    procs       \* concurrently running invocations: position and locals

vars == <<sites, patients, visits, forms, queries, labs, codings, alerts,
          history, last, uploads, procs>>

-----------------------------------------------------------------------------
(* Bounds of the model                                                     *)

MaxRows == 2        \* rows of one extract
MaxUploads == 2     \* files ingested in one behaviour
MaxHistory == 3     \* DQIHistory rows in one behaviour
MaxAlerts == 2      \* Alert rows in one behaviour

\* dates: a day number, or None in the store
Date(d) == [kind |-> "date", day |-> d]
NullDate == [kind |-> "null", day |-> 0]

\* timezone.now().date(), as a day number
Today == 1000

-----------------------------------------------------------------------------
(* The record store as one value, so that handlers compose                 *)

Store ==
    [sites |-> sites, patients |-> patients, visits |-> visits, forms |-> forms,
     queries |-> queries, labs |-> labs, codings |-> codings, alerts |-> alerts,
     history |-> history]

Commit(db) ==
    /\ sites' = db.sites
    /\ patients' = db.patients
    /\ visits' = db.visits
    /\ forms' = db.forms
    /\ queries' = db.queries
    /\ labs' = db.labs
    /\ codings' = db.codings
    /\ alerts' = db.alerts
    /\ history' = db.history

EmptyStore ==
    [sites |-> <<>>, patients |-> <<>>, visits |-> <<>>, forms |-> <<>>,
     queries |-> <<>>, labs |-> <<>>, codings |-> <<>>, alerts |-> <<>>,
     history |-> <<>>]

Max(a, b) == IF a >= b THEN a ELSE b

\* a local variable assigned once: The({e : x \in {v}}) is e with x holding v
The(S) == CHOOSE x \in S : TRUE

RECURSIVE SumOver(_, _)
SumOver(f, S) ==
    IF S = {} THEN 0
    ELSE LET i == CHOOSE x \in S : TRUE IN f[i] + SumOver(f, S \ {i})

\* round(n / d) to the nearest integer, ties to the even one (d > 0)
RoundDiv(n, d) ==
    LET q == n \div d
        r == n % d
    IN  IF 2 * r < d THEN q
        ELSE IF 2 * r > d THEN q + 1
        ELSE IF q % 2 = 0 THEN q ELSE q + 1

-----------------------------------------------------------------------------
(* DQI engine                                                              *)

\* site.patients.all(): ids of the patients of site s
SitePatients(db, s) == {i \in DOMAIN db.patients : db.patients[i].site = s}

\* Visit rows filtered by patient__site=s
SiteVisits(db, s) == {i \in DOMAIN db.visits : db.visits[i].patient \in SitePatients(db, s)}

\* Form rows filtered by visit__patient__site=s
SiteForms(db, s) == {i \in DOMAIN db.forms : db.forms[i].visit \in SiteVisits(db, s)}

SiteQueries(db, s) == {i \in DOMAIN db.queries : db.queries[i].patient \in SitePatients(db, s)}

SiteLabs(db, s) == {i \in DOMAIN db.labs : db.labs[i].patient \in SitePatients(db, s)}

SiteCodings(db, s) == {i \in DOMAIN db.codings : db.codings[i].patient \in SitePatients(db, s)}

calculate_missing_data_score(db, s) ==
    LET total_labs == Cardinality(SiteLabs(db, s))
        missing_labs == Cardinality({i \in SiteLabs(db, s) : db.labs[i].is_missing})
        total_forms == Cardinality({i \in SiteForms(db, s) : db.forms[i].is_required})
        incomplete_forms ==
            Cardinality({i \in SiteForms(db, s) :
                            db.forms[i].is_required /\ ~db.forms[i].is_complete})
        total == total_labs + total_forms
    IN  IF total = 0 THEN 10000
        ELSE RoundDiv(Max(0, 10000 * (total - (missing_labs + incomplete_forms))), total)

calculate_query_score(db, s) ==
    LET total_queries == Cardinality(SiteQueries(db, s))
        open == {i \in SiteQueries(db, s) : ~db.queries[i].is_resolved}
        open_queries == Cardinality(open)
        \* Avg('days_open') of the open queries is age_sum / open_queries
        age_sum == SumOver([i \in open |-> db.queries[i].days_open], open)
    IN  IF total_queries = 0 THEN 10000
        ELSE IF open_queries = 0 THEN 10000
        \* min(avg_age / 2, 50) is 50
        ELSE IF age_sum >= 100 * open_queries
             THEN RoundDiv(Max(0, 5000 * total_queries - 5000 * open_queries),
                           total_queries)
        \* 100 - open_rate * 50 - avg_age / 2, over the common denominator
        ELSE RoundDiv(Max(0, 10000 * total_queries * open_queries
                               - 5000 * open_queries * open_queries
                               - 50 * age_sum * total_queries),
                      total_queries * open_queries)

calculate_visit_completion_score(db, s) ==
    LET total_visits == Cardinality(SiteVisits(db, s))
        completed_visits == Cardinality({i \in SiteVisits(db, s) : db.visits[i].is_completed})
    IN  IF total_visits = 0 THEN 10000
        ELSE RoundDiv(10000 * completed_visits, total_visits)

calculate_verification_score(db, s) ==
    LET total_forms == Cardinality(SiteForms(db, s))
        verified_forms == Cardinality({i \in SiteForms(db, s) : db.forms[i].is_verified})
    IN  IF total_forms = 0 THEN 10000
        ELSE RoundDiv(10000 * verified_forms, total_forms)

calculate_coding_score(db, s) ==
    LET total_issues == Cardinality(SiteCodings(db, s))
        unresolved_issues == Cardinality({i \in SiteCodings(db, s) : ~db.codings[i].is_resolved})
    IN  IF total_issues = 0 THEN 10000
        ELSE RoundDiv(10000 * (total_issues - unresolved_issues), total_issues)

\* DQICalculator.WEIGHTS, keyed as in the source
WEIGHTS ==
    [missing_data |-> 30, open_queries |-> 25, visit_completion |-> 20,
     verification |-> 15, coding |-> 10]

\* dict.get(key, default)
DictGet(d, key, default) == IF key \in DOMAIN d THEN d[key] ELSE default

\* the key is looked up as it is
ReplaceQuery_Identity(key) == key

\* key.replace('query', 'open_queries') on the keys of the scores dict
ReplaceQuery(key) == IF key = "query" THEN "open_queries" ELSE key

\* WEIGHTS.get(key, WEIGHTS.get(key.replace('query', 'open_queries'), 0))
WeightOf(key) == DictGet(WEIGHTS, key, DictGet(WEIGHTS, ReplaceQuery(key), 0))

\* the scores dict built by calculate
Scores(db, s) ==
    [missing_data |-> calculate_missing_data_score(db, s),
     query |-> calculate_query_score(db, s),
     visit_completion |-> calculate_visit_completion_score(db, s),
     verification |-> calculate_verification_score(db, s),
     coding |-> calculate_coding_score(db, s)]

\* sum(scores[key] * weight / 100), in 1/10000 of a point
WeightedDqi(scores) ==
    SumOver([k \in DOMAIN scores |-> scores[k] * WeightOf(k)], DOMAIN scores)

\* round(dqi, 2), in hundredths
Round2(dqi) == RoundDiv(dqi, 100)

\* the guard dropped: an empty site is scored like any other
HasNoPatients_Never(db, s) == FALSE

\* self.total_patients == 0
HasNoPatients(db, s) == Cardinality(SitePatients(db, s)) = 0

\* self.site.dqi_score = round(dqi, 2); self.site.last_calculated = now; save()
SaveSite(db, s, dqi) ==
    [db EXCEPT !.sites[s] = [@ EXCEPT !.dqi_score = Round2(dqi),
                                      !.last_calculated = Date(Today)]]

\* a snapshot is skipped when the site's latest one has the same overall score
CreateSnapshot_SkipSame(db, snapshot) ==
    LET mine == {i \in DOMAIN db.history : db.history[i].site = snapshot.site}
    IN  IF mine # {} /\ db.history[CHOOSE i \in mine : \A j \in mine : j <= i].dqi_score
                          = snapshot.dqi_score
        THEN db
        ELSE [db EXCEPT !.history = Append(@, snapshot)]

\* update_or_create keyed on the site: the site's snapshot is overwritten
CreateSnapshot_Upsert(db, snapshot) ==
    LET mine == {i \in DOMAIN db.history : db.history[i].site = snapshot.site}
    IN  IF mine = {} THEN [db EXCEPT !.history = Append(@, snapshot)]
        ELSE [db EXCEPT !.history[CHOOSE i \in mine : TRUE] = snapshot]

\* DQIHistory.objects.create(site=..., dqi_score=dqi, ...)
CreateSnapshot(db, snapshot) == [db EXCEPT !.history = Append(@, snapshot)]

\* the keyword arguments of DQIHistory.objects.create
Snapshot(s, dqi, scores) ==
    [site |-> s, dqi_score |-> dqi,
     missing_data_score |-> scores.missing_data,
     query_score |-> scores.query,
     visit_completion_score |-> scores.visit_completion,
     verification_score |-> scores.verification,
     coding_score |-> scores.coding]

\* DQICalculator(site).calculate(): the store after the call and the value returned
\* (0 for a site without patients, else the unrounded weighted sum)
calculate(db, s) ==
    IF HasNoPatients(db, s) THEN [db |-> db, ret |-> 0]
    ELSE The({The({[db |-> CreateSnapshot(SaveSite(db, s, dqi), Snapshot(s, dqi, scores)),
                    ret |-> dqi]
                   : dqi \in {WeightedDqi(scores)}})
              : scores \in {Scores(db, s)}})

-----------------------------------------------------------------------------
(* Alerting engine                                                         *)

DqiDropThreshold == 6000     \* site.dqi_score < 60
DqiCriticalThreshold == 4500 \* site.dqi_score < 45
OldQueryDays == 21           \* days_open__gte=21
OldQueryThreshold == 10      \* old_queries > 10
MissingVisitThreshold == 5   \* missing_count__gte=5

\* the filter tests is_resolved=True
ExistsUnresolved_Resolved(db, s, t) ==
    \E i \in DOMAIN db.alerts :
        /\ db.alerts[i].site = s
        /\ db.alerts[i].alert_type = t
        /\ db.alerts[i].is_resolved

\* the filter lacks is_resolved: any alert of the type suppresses a new one
ExistsUnresolved_Any(db, s, t) ==
    \E i \in DOMAIN db.alerts : db.alerts[i].site = s /\ db.alerts[i].alert_type = t

\* Alert.objects.filter(site=s, alert_type=t, is_resolved=False).exists()
ExistsUnresolved(db, s, t) ==
    \E i \in DOMAIN db.alerts :
        /\ db.alerts[i].site = s
        /\ db.alerts[i].alert_type = t
        /\ ~db.alerts[i].is_resolved

\* Alert.objects.create(site=s, alert_type=t, severity=sev, ...)
CreateAlert(db, s, t, sev) ==
    [db EXCEPT !.alerts =
        Append(@, [site |-> s, alert_type |-> t, severity |-> sev, is_resolved |-> FALSE])]

\* number of unresolved queries of the site with days_open >= 21
OldQueries(db, s) ==
    Cardinality({i \in SiteQueries(db, s) :
                    ~db.queries[i].is_resolved /\ db.queries[i].days_open >= OldQueryDays})

\* the thresholds are inclusive: <= 60 raises an alert, <= 45 makes it critical
CheckDqiDrop_Inclusive(db, s) ==
    IF db.sites[s].dqi_score <= DqiDropThreshold /\ ~ExistsUnresolved(db, s, "dqi_drop")
    THEN CreateAlert(db, s, "dqi_drop",
                     IF db.sites[s].dqi_score <= DqiCriticalThreshold
                     THEN "critical" ELSE "high")
    ELSE db

\* the dqi_drop rule of check_dqi_alerts
CheckDqiDrop(db, s) ==
    IF db.sites[s].dqi_score < DqiDropThreshold /\ ~ExistsUnresolved(db, s, "dqi_drop")
    THEN CreateAlert(db, s, "dqi_drop",
                     IF db.sites[s].dqi_score < DqiCriticalThreshold
                     THEN "critical" ELSE "high")
    ELSE db

\* the count is compared with >=
CheckQueryAge_AtLeast(db, s) ==
    IF OldQueries(db, s) >= OldQueryThreshold /\ ~ExistsUnresolved(db, s, "query_age")
    THEN CreateAlert(db, s, "query_age", "high")
    ELSE db

\* the query_age rule of check_dqi_alerts
CheckQueryAge(db, s) ==
    IF OldQueries(db, s) > OldQueryThreshold /\ ~ExistsUnresolved(db, s, "query_age")
    THEN CreateAlert(db, s, "query_age", "high")
    ELSE db

check_dqi_alerts(db, s) ==
    The({CheckQueryAge(db1, s) : db1 \in {CheckDqiDrop(db, s)}})

\* number of visits with is_missing=True grouped under site s
MissingVisits(db, s) ==
    Cardinality({i \in SiteVisits(db, s) : db.visits[i].is_missing})

\* the filter is missing_count__gt=5
SitesWithIssues_Above(db) ==
    {s \in DOMAIN db.sites : MissingVisits(db, s) > MissingVisitThreshold}

\* sites_with_issues: the sites whose group has missing_count >= 5
SitesWithIssues(db) ==
    {s \in DOMAIN db.sites : MissingVisits(db, s) >= MissingVisitThreshold}

\* the loop of check_missing_visit_patterns over the sites still to visit
RECURSIVE PatternLoop(_, _)
PatternLoop(db, todo) ==
    IF todo = {} THEN db
    ELSE The({The({PatternLoop(db1, todo \ {s})
                   : db1 \in {IF ExistsUnresolved(db, s, "missing_visits") THEN db
                              ELSE CreateAlert(db, s, "missing_visits", "medium")}})
              : s \in {CHOOSE x \in todo : \A y \in todo : x <= y}})

check_missing_visit_patterns(db) == PatternLoop(db, SitesWithIssues(db))

\* the alert check is left out when the site has no patients
calculate_site_dqi_SkipEmpty(db, s) ==
    The({[db |-> IF HasNoPatients(db, s) THEN c.db ELSE check_dqi_alerts(c.db, s),
          ret |-> c.ret] : c \in {calculate(db, s)}})

\* calculate_site_dqi: the calculation, then the alert check
calculate_site_dqi(db, s) ==
    The({[db |-> check_dqi_alerts(c.db, s), ret |-> c.ret] : c \in {calculate(db, s)}})

-----------------------------------------------------------------------------
(* Ingestion pipeline                                                      *)

NAN == [kind |-> "nan", day |-> 0]   \* an empty date cell (pd.notna is false)
BAD == [kind |-> "bad", day |-> 0]   \* a cell pd.to_datetime cannot parse
NanText == "nan"                     \* an empty text cell

\* str(cell).strip()
StrStrip(cell) == IF cell = " 101 " THEN "101" ELSE cell

\* str.lower() on the issue types of the extracts
StrLower(cell) == IF cell = "WHODD" THEN "whodd" ELSE cell

\* Model.objects.get_or_create over table t: found holds the rows the lookup
\* finds, new is the row created when there is none; two or more rows found
\* raise MultipleObjectsReturned (ok = FALSE)
GetOrCreate(t, found, new) ==
    IF found = {} THEN [t |-> Append(t, new), id |-> Len(t) + 1, ok |-> TRUE]
    ELSE IF Cardinality(found) = 1
         THEN [t |-> t, id |-> CHOOSE i \in found : TRUE, ok |-> TRUE]
    ELSE [t |-> t, id |-> 0, ok |-> FALSE]

\* the row found is left as it is
SetFields_Keep(row, defaults) == row

\* setattr(obj, k, v) for k, v in defaults.items()
SetFields(row, defaults) ==
    [k \in DOMAIN row |-> IF k \in DOMAIN defaults THEN defaults[k] ELSE row[k]]

\* Model.objects.update_or_create: as get_or_create, but the row found is
\* overwritten with the defaults
UpdateOrCreate(t, found, new, defaults) ==
    IF found = {} THEN [t |-> Append(t, new), id |-> Len(t) + 1, ok |-> TRUE]
    ELSE IF Cardinality(found) = 1
         THEN LET i == CHOOSE x \in found : TRUE
              IN  [t |-> [t EXCEPT ![i] = SetFields(t[i], defaults)], id |-> i, ok |-> TRUE]
    ELSE [t |-> t, id |-> 0, ok |-> FALSE]

NewSite(study, site_number) ==
    [study |-> study, site_number |-> site_number, dqi_score |-> 0,
     status |-> "active", last_calculated |-> NullDate]

NewPatient(site, patient_id) ==
    [site |-> site, patient_id |-> patient_id, status |-> "minor_issues",
     is_clean |-> FALSE, issues_count |-> 0]

NewVisit(patient, visit_number) ==
    [patient |-> patient, visit_number |-> visit_number, scheduled_date |-> NullDate,
     actual_date |-> NullDate, is_completed |-> FALSE, is_missing |-> FALSE]

\* ExcelParser.get_or_create_site, then get_or_create_patient: the first two
\* steps of every row
SiteAndPatient(db, study, row) ==
    The({IF ~s.ok THEN [db |-> db, patient |-> 0, ok |-> FALSE]
         ELSE The({IF ~p.ok
                   THEN [db |-> [db EXCEPT !.sites = s.t], patient |-> 0, ok |-> FALSE]
                   ELSE [db |-> [db EXCEPT !.sites = s.t, !.patients = p.t],
                         patient |-> p.id, ok |-> TRUE]
                   : p \in {GetOrCreate(db.patients,
                                        {i \in DOMAIN db.patients :
                                            /\ db.patients[i].site = s.id
                                            /\ db.patients[i].patient_id
                                                 = StrStrip(row.patient_id)},
                                        NewPatient(s.id, StrStrip(row.patient_id)))}})
         : s \in {GetOrCreate(db.sites,
                              {i \in DOMAIN db.sites :
                                  /\ db.sites[i].study = study
                                  /\ db.sites[i].site_number = StrStrip(row.site_number)},
                              NewSite(study, StrStrip(row.site_number)))}})

NewLab(patient, visit, lab_name, test_name) ==
    [patient |-> patient, visit |-> visit, lab_name |-> lab_name,
     test_name |-> test_name, is_missing |-> TRUE]

\* LabData.objects.create: the lookup is not made
UpsertLab_Create(t, patient, visit, lab_name, test_name) ==
    [t |-> Append(t, NewLab(patient, visit, lab_name, test_name)),
     id |-> Len(t) + 1, ok |-> TRUE]

\* Visit.objects.filter(patient=patient, visit_number=visit_num)
FindVisits(t, patient, visit_num) ==
    {i \in DOMAIN t : t[i].patient = patient /\ t[i].visit_number = visit_num}

\* LabData.objects.update_or_create(patient, visit, lab_name, test_name,
\* defaults={'is_missing': True, ...})
UpsertLab(t, patient, visit, lab_name, test_name) ==
    UpdateOrCreate(t,
                   {i \in DOMAIN t : /\ t[i].patient = patient
                                       /\ t[i].visit = visit
                                       /\ t[i].lab_name = lab_name
                                       /\ t[i].test_name = test_name},
                   NewLab(patient, visit, lab_name, test_name),
                   [is_missing |-> TRUE])

\* one iteration of the loop of parse_missing_labs
MissingLabsRow(db, study, row) ==
    The({IF ~sp.ok THEN [db |-> sp.db, ok |-> FALSE]
         ELSE The({IF ~v.ok THEN [db |-> sp.db, ok |-> FALSE]
                   ELSE The({IF ~l.ok
                             THEN [db |-> [sp.db EXCEPT !.visits = v.t], ok |-> FALSE]
                             ELSE [db |-> [sp.db EXCEPT !.visits = v.t, !.labs = l.t],
                                   ok |-> TRUE]
                             : l \in {UpsertLab(sp.db.labs, sp.patient, v.id,
                                                StrStrip(row.lab_name),
                                                StrStrip(row.test_name))}})
                   : v \in {GetOrCreate(sp.db.visits,
                                        FindVisits(sp.db.visits, sp.patient,
                                                   StrStrip(row.visit)),
                                        NewVisit(sp.patient, StrStrip(row.visit)))}})
         : sp \in {SiteAndPatient(db, study, row)}})

\* get_or_create in place of update_or_create: a visit found is left as it is
MissingVisitsRow_GetOrCreate(db, study, row) ==
    LET visit_num == StrStrip(row.visit_number)
        has_date == "scheduled_date" \in DOMAIN row /\ row.scheduled_date # NAN
        scheduled_date == IF has_date THEN row.scheduled_date ELSE NullDate
    IN  The({IF ~sp.ok THEN [db |-> sp.db, ok |-> FALSE]
             ELSE IF has_date /\ row.scheduled_date = BAD THEN [db |-> sp.db, ok |-> FALSE]
             ELSE The({IF ~v.ok THEN [db |-> sp.db, ok |-> FALSE]
                       ELSE [db |-> [sp.db EXCEPT !.visits = v.t], ok |-> TRUE]
                       : v \in {GetOrCreate(
                                   sp.db.visits,
                                   FindVisits(sp.db.visits, sp.patient, visit_num),
                                   [NewVisit(sp.patient, visit_num) EXCEPT
                                       !.scheduled_date = scheduled_date,
                                       !.is_missing = TRUE, !.is_completed = FALSE])}})
             : sp \in {SiteAndPatient(db, study, row)}})

\* the defaults lack is_completed: a visit found keeps the flag it has
MissingVisitsRow_KeepCompleted(db, study, row) ==
    LET visit_num == StrStrip(row.visit_number)
        has_date == "scheduled_date" \in DOMAIN row /\ row.scheduled_date # NAN
        scheduled_date == IF has_date THEN row.scheduled_date ELSE NullDate
    IN  The({IF ~sp.ok THEN [db |-> sp.db, ok |-> FALSE]
             ELSE IF has_date /\ row.scheduled_date = BAD THEN [db |-> sp.db, ok |-> FALSE]
             ELSE The({IF ~v.ok THEN [db |-> sp.db, ok |-> FALSE]
                       ELSE [db |-> [sp.db EXCEPT !.visits = v.t], ok |-> TRUE]
                       : v \in {UpdateOrCreate(
                                   sp.db.visits,
                                   FindVisits(sp.db.visits, sp.patient, visit_num),
                                   [NewVisit(sp.patient, visit_num) EXCEPT
                                       !.scheduled_date = scheduled_date,
                                       !.is_missing = TRUE, !.is_completed = FALSE],
                                   [scheduled_date |-> scheduled_date,
                                    is_missing |-> TRUE])}})
             : sp \in {SiteAndPatient(db, study, row)}})

\* one iteration of the loop of parse_missing_visits
MissingVisitsRow(db, study, row) ==
    LET visit_num == StrStrip(row.visit_number)
        has_date == "scheduled_date" \in DOMAIN row /\ row.scheduled_date # NAN
        scheduled_date == IF has_date THEN row.scheduled_date ELSE NullDate
    IN  The({IF ~sp.ok THEN [db |-> sp.db, ok |-> FALSE]
             ELSE IF has_date /\ row.scheduled_date = BAD THEN [db |-> sp.db, ok |-> FALSE]
             ELSE The({IF ~v.ok THEN [db |-> sp.db, ok |-> FALSE]
                       ELSE [db |-> [sp.db EXCEPT !.visits = v.t], ok |-> TRUE]
                       : v \in {UpdateOrCreate(
                                   sp.db.visits,
                                   FindVisits(sp.db.visits, sp.patient, visit_num),
                                   [NewVisit(sp.patient, visit_num) EXCEPT
                                       !.scheduled_date = scheduled_date,
                                       !.is_missing = TRUE, !.is_completed = FALSE],
                                   [scheduled_date |-> scheduled_date,
                                    is_missing |-> TRUE, is_completed |-> FALSE])}})
             : sp \in {SiteAndPatient(db, study, row)}})

\* one iteration of the loop of parse_open_queries
OpenQueriesRow(db, study, row) ==
    LET opened_date == row.opened_date
        days_open == Today - opened_date.day
        query_id == StrStrip(row.query_id)
    IN  The({IF ~sp.ok THEN [db |-> sp.db, ok |-> FALSE]
             ELSE IF opened_date = BAD THEN [db |-> sp.db, ok |-> FALSE]
             ELSE The({IF ~q.ok THEN [db |-> sp.db, ok |-> FALSE]
                       ELSE [db |-> [sp.db EXCEPT !.queries = q.t], ok |-> TRUE]
                       : q \in {UpdateOrCreate(
                                   sp.db.queries,
                                   {i \in DOMAIN sp.db.queries :
                                       sp.db.queries[i].query_id = query_id},
                                   [patient |-> sp.patient, query_id |-> query_id,
                                    opened_date |-> opened_date,
                                    resolved_date |-> NullDate,
                                    is_resolved |-> FALSE, days_open |-> days_open],
                                   [patient |-> sp.patient, opened_date |-> opened_date,
                                    is_resolved |-> FALSE, days_open |-> days_open])}})
             : sp \in {SiteAndPatient(db, study, row)}})

CodingTypes == {"meddra", "whodd", "other"}

\* the row is skipped when the patient already has an issue with its term
CodingIssuesRow_Dedup(db, study, row) ==
    The({IF ~sp.ok THEN [db |-> sp.db, ok |-> FALSE]
         ELSE IF \E i \in DOMAIN sp.db.codings :
                    /\ sp.db.codings[i].patient = sp.patient
                    /\ sp.db.codings[i].term = StrStrip(row.term)
         THEN [db |-> sp.db, ok |-> TRUE]
         ELSE [db |-> [sp.db EXCEPT !.codings =
                         Append(@, [patient |-> sp.patient, issue_type |-> "meddra",
                                    term |-> StrStrip(row.term),
                                    is_resolved |-> FALSE])],
               ok |-> TRUE]
         : sp \in {SiteAndPatient(db, study, row)}})

\* one iteration of the loop of parse_coding_issues
CodingIssuesRow(db, study, row) ==
    LET cell == IF "issue_type" \in DOMAIN row THEN row.issue_type ELSE "meddra"
        issue_type == IF StrLower(cell) \in CodingTypes THEN StrLower(cell) ELSE "other"
    IN  The({IF ~sp.ok THEN [db |-> sp.db, ok |-> FALSE]
             \* an empty cell is a float: it has no lower()
             ELSE IF cell = NanText THEN [db |-> sp.db, ok |-> FALSE]
             ELSE [db |-> [sp.db EXCEPT !.codings =
                             Append(@, [patient |-> sp.patient, issue_type |-> issue_type,
                                        term |-> StrStrip(row.term),
                                        is_resolved |-> FALSE])],
                   ok |-> TRUE]
             : sp \in {SiteAndPatient(db, study, row)}})

\* the defaults lack is_missing: a visit found keeps the flag it had
VisitProjectionsRow_KeepMissing(db, study, row) ==
    LET visit_num == StrStrip(row.visit_number)
        projected_date == row.projected_date
        has_actual == "actual_date" \in DOMAIN row /\ row.actual_date # NAN
        actual_date == IF has_actual THEN row.actual_date ELSE NullDate
        is_completed == has_actual
    IN  The({IF ~sp.ok THEN [db |-> sp.db, ok |-> FALSE]
             ELSE IF projected_date = BAD THEN [db |-> sp.db, ok |-> FALSE]
             ELSE IF has_actual /\ actual_date = BAD THEN [db |-> sp.db, ok |-> FALSE]
             ELSE The({IF ~v.ok THEN [db |-> sp.db, ok |-> FALSE]
                       ELSE [db |-> [sp.db EXCEPT !.visits = v.t], ok |-> TRUE]
                       : v \in {UpdateOrCreate(
                                   sp.db.visits,
                                   FindVisits(sp.db.visits, sp.patient, visit_num),
                                   [NewVisit(sp.patient, visit_num) EXCEPT
                                       !.scheduled_date = projected_date,
                                       !.actual_date = actual_date,
                                       !.is_completed = is_completed,
                                       !.is_missing = ~is_completed],
                                   [scheduled_date |-> projected_date,
                                    actual_date |-> actual_date,
                                    is_completed |-> is_completed])}})
             : sp \in {SiteAndPatient(db, study, row)}})

\* one iteration of the loop of parse_visit_projections
VisitProjectionsRow(db, study, row) ==
    LET visit_num == StrStrip(row.visit_number)
        projected_date == row.projected_date
        has_actual == "actual_date" \in DOMAIN row /\ row.actual_date # NAN
        actual_date == IF has_actual THEN row.actual_date ELSE NullDate
        is_completed == has_actual
    IN  The({IF ~sp.ok THEN [db |-> sp.db, ok |-> FALSE]
             ELSE IF projected_date = BAD THEN [db |-> sp.db, ok |-> FALSE]
             ELSE IF has_actual /\ actual_date = BAD THEN [db |-> sp.db, ok |-> FALSE]
             ELSE The({IF ~v.ok THEN [db |-> sp.db, ok |-> FALSE]
                       ELSE [db |-> [sp.db EXCEPT !.visits = v.t], ok |-> TRUE]
                       : v \in {UpdateOrCreate(
                                   sp.db.visits,
                                   FindVisits(sp.db.visits, sp.patient, visit_num),
                                   [NewVisit(sp.patient, visit_num) EXCEPT
                                       !.scheduled_date = projected_date,
                                       !.actual_date = actual_date,
                                       !.is_completed = is_completed,
                                       !.is_missing = ~is_completed],
                                   [scheduled_date |-> projected_date,
                                    actual_date |-> actual_date,
                                    is_completed |-> is_completed,
                                    is_missing |-> ~is_completed])}})
             : sp \in {SiteAndPatient(db, study, row)}})

\* required_cols of the five parse_* methods
RequiredCols(file_type) ==
    CASE file_type = "missing_labs" ->
            {"site_number", "patient_id", "visit", "lab_name", "test_name"}
      [] file_type = "missing_visits" -> {"site_number", "patient_id", "visit_number"}
      [] file_type = "open_queries" ->
            {"site_number", "patient_id", "query_id", "opened_date"}
      [] file_type = "coding_issues" -> {"site_number", "patient_id", "term"}
      [] file_type = "visit_projections" ->
            {"site_number", "patient_id", "visit_number", "projected_date"}

\* the keys of parser_methods
FileTypes ==
    {"missing_labs", "missing_visits", "coding_issues", "open_queries",
     "visit_projections"}

\* the try block of one row, by file type
RowStep(db, study, file_type, row) ==
    CASE file_type = "missing_labs" -> MissingLabsRow(db, study, row)
      [] file_type = "missing_visits" -> MissingVisitsRow(db, study, row)
      [] file_type = "open_queries" -> OpenQueriesRow(db, study, row)
      [] file_type = "coding_issues" -> CodingIssuesRow(db, study, row)
      [] file_type = "visit_projections" -> VisitProjectionsRow(db, study, row)

\* for idx, row in df.iterrows(): the state of the parser after rows i..Len(rows);
\* st = [db, rows_processed, errors], errors being the list self.errors
RECURSIVE RowLoop(_, _, _)
RowLoop(st, f, i) ==
    IF i > Len(f.rows) THEN st
    ELSE The({RowLoop(The({nxt : nxt \in {
                        [db |-> r.db,
                         rows_processed |-> IF r.ok THEN st.rows_processed + 1
                                            ELSE st.rows_processed,
                         errors |-> IF r.ok THEN st.errors
                                    ELSE Append(st.errors,
                                                [kind |-> "row", row |-> i - 1])]}}),
                      f, i + 1)
              : r \in {RowStep(st.db, f.study, f.file_type, f.rows[i])}})

\* the abort on missing columns records no error
MissingColumnsErrors_None == <<>>

\* self.errors.append(f"Missing required columns. Required: {required_cols}")
MissingColumnsErrors == <<[kind |-> "missing_columns", row |-> -1]>>

\* ExcelParser.parse on file f: the store afterwards, the pair returned
\* (success, rows_processed) and self.errors
parse(db, f) ==
    IF ~f.readable
    THEN [db |-> db, success |-> FALSE, rows_processed |-> 0,
          errors |-> <<[kind |-> "file", row |-> -1]>>]
    ELSE IF f.file_type \notin FileTypes
    THEN [db |-> db, success |-> TRUE, rows_processed |-> 0,
          errors |-> <<[kind |-> "unknown_type", row |-> -1]>>]
    ELSE IF ~(RequiredCols(f.file_type) \subseteq f.columns)
    THEN [db |-> db, success |-> TRUE, rows_processed |-> 0,
          errors |-> MissingColumnsErrors]
    ELSE The({[db |-> st.db, success |-> TRUE, rows_processed |-> st.rows_processed,
               errors |-> st.errors]
              : st \in {RowLoop([db |-> db, rows_processed |-> 0, errors |-> <<>>],
                                f, 1)}})

-----------------------------------------------------------------------------
(* Patient status aggregator                                               *)

PatientVisits(db, p) == {i \in DOMAIN db.visits : db.visits[i].patient = p}

\* total_issues of Patient.update_status
TotalIssues(db, p) ==
    LET open_queries ==
            Cardinality({i \in DOMAIN db.queries :
                            db.queries[i].patient = p /\ ~db.queries[i].is_resolved})
        missing_visits == Cardinality({i \in PatientVisits(db, p) : db.visits[i].is_missing})
        incomplete_forms ==
            Cardinality({i \in DOMAIN db.forms :
                            db.forms[i].visit \in PatientVisits(db, p)
                            /\ ~db.forms[i].is_complete})
        missing_labs ==
            Cardinality({i \in DOMAIN db.labs :
                            db.labs[i].patient = p /\ db.labs[i].is_missing})
    IN  open_queries + missing_visits + incomplete_forms + missing_labs

\* the minor bucket ends below 3
StatusOf_Strict(total_issues) ==
    IF total_issues = 0 THEN "clean"
    ELSE IF total_issues < 3 THEN "minor_issues"
    ELSE IF total_issues <= 10 THEN "major_issues"
    ELSE "critical"

\* the status thresholds of Patient.update_status
StatusOf(total_issues) ==
    IF total_issues = 0 THEN "clean"
    ELSE IF total_issues <= 3 THEN "minor_issues"
    ELSE IF total_issues <= 10 THEN "major_issues"
    ELSE "critical"

\* Patient.update_status: the store afterwards and the count returned
update_status(db, p) ==
    The({[db |-> [db EXCEPT !.patients[p] =
                    [@ EXCEPT !.issues_count = total_issues,
                              !.status = StatusOf(total_issues),
                              !.is_clean = (total_issues = 0)]],
          ret |-> total_issues]
         : total_issues \in {TotalIssues(db, p)}})

-----------------------------------------------------------------------------
(* Coordinators and resolution views                                       *)

\* Site.Meta.ordering = ['site_number']
SiteNumberOrder == <<"101", "102">>

SiteRank(db, s) ==
    CHOOSE k \in DOMAIN SiteNumberOrder : SiteNumberOrder[k] = db.sites[s].site_number

\* the place of site s in the queryset: by site_number, then by id
SiteKey(db, s) == SiteRank(db, s) * (Len(db.sites) + 1) + s

\* for site in sites: calculate_site_dqi(site.id), in the order of the queryset
RECURSIVE SiteLoop(_, _)
SiteLoop(db, todo) ==
    IF todo = {} THEN db
    ELSE The({The({SiteLoop(db1, todo \ {s}) : db1 \in {calculate_site_dqi(db, s).db}})
              : s \in {CHOOSE x \in todo :
                          \A y \in todo : SiteKey(db, x) <= SiteKey(db, y)}})

\* for patient in patients: patient.update_status()
RECURSIVE PatientLoop(_, _)
PatientLoop(db, todo) ==
    IF todo = {} THEN db
    ELSE The({The({PatientLoop(db1, todo \ {p}) : db1 \in {update_status(db, p).db}})
              : p \in {CHOOSE x \in todo : \A y \in todo : x <= y}})

StudySites(db, study) == {s \in DOMAIN db.sites : db.sites[s].study = study}

StudyPatients(db, study) ==
    {p \in DOMAIN db.patients : db.patients[p].site \in StudySites(db, study)}

\* process_excel_file on the upload of file f
process_excel_file(db, f) ==
    The({[db |-> IF r.success
                 THEN The({PatientLoop(db1, StudyPatients(db1, f.study))
                           : db1 \in {SiteLoop(r.db, StudySites(r.db, f.study))}})
                 ELSE r.db,
          success |-> r.success, rows_processed |-> r.rows_processed,
          errors |-> r.errors]
         : r \in {parse(db, f)}})

\* calculate_all_dqi_scores: the sweep over the active sites
calculate_all_dqi_scores(db) ==
    SiteLoop(db, {s \in DOMAIN db.sites : db.sites[s].status = "active"})

\* resolve_query (base/views.py) on query q
resolve_query(db, q) ==
    The({calculate(db2, db2.patients[db2.queries[q].patient].site).db
         : db2 \in {update_status(
                       [db EXCEPT !.queries[q] =
                           [@ EXCEPT !.is_resolved = TRUE,
                                     !.resolved_date = Date(Today),
                                     !.days_open = Today - db.queries[q].opened_date.day]],
                       db.queries[q].patient).db}})

\* resolve_alert (base/views.py) on alert a
resolve_alert(db, a) == [db EXCEPT !.alerts[a].is_resolved = TRUE]

-----------------------------------------------------------------------------
(* The extracts handed to the pipeline                                     *)

Studies == {1}
RawSiteNumbers == {"101", "102"}
PatientIds == {"P1"}
VisitNumbers == {"V1"}

\* the rows an extract of the given type can hold when its columns are cols
MissingLabsRows ==
    [site_number : RawSiteNumbers \cup {" 101 "}, patient_id : PatientIds,
     visit : VisitNumbers, lab_name : {"Central"}, test_name : {"ALT"}]

MissingVisitsRows(cols) ==
    IF "scheduled_date" \in cols
    THEN [site_number : {"101"}, patient_id : PatientIds,
          visit_number : VisitNumbers, scheduled_date : {NAN, Date(Today + 7), BAD}]
    ELSE [site_number : RawSiteNumbers, patient_id : PatientIds,
          visit_number : VisitNumbers]

OpenQueriesRows ==
    [site_number : RawSiteNumbers, patient_id : PatientIds, query_id : {"Q1"},
     opened_date : {Date(Today - 30), Date(Today + 120), BAD}]
    \cup
    [site_number : {"101"}, patient_id : PatientIds, query_id : {"Q2"},
     opened_date : {Date(Today - 30)}]

CodingIssuesRows(cols) ==
    IF "issue_type" \in cols
    THEN [site_number : {"101"}, patient_id : PatientIds, term : {"Headache"},
          issue_type : {"WHODD", "snomed", NanText}]
    ELSE [site_number : RawSiteNumbers, patient_id : PatientIds, term : {"Headache"}]

VisitProjectionsRows(cols) ==
    IF "actual_date" \in cols
    THEN [site_number : {"101"}, patient_id : PatientIds,
          visit_number : VisitNumbers, projected_date : {Date(Today - 7)},
          actual_date : {NAN, Date(Today - 5), BAD}]
    ELSE [site_number : RawSiteNumbers, patient_id : PatientIds,
          visit_number : VisitNumbers, projected_date : {Date(Today - 7)}]
         \cup
         [site_number : {"101"}, patient_id : PatientIds,
          visit_number : VisitNumbers, projected_date : {BAD}]

RowsOf(file_type, cols) ==
    CASE file_type = "missing_labs" -> MissingLabsRows
      [] file_type = "missing_visits" -> MissingVisitsRows(cols)
      [] file_type = "open_queries" -> OpenQueriesRows
      [] file_type = "coding_issues" -> CodingIssuesRows(cols)
      [] file_type = "visit_projections" -> VisitProjectionsRows(cols)

\* the optional column each type's loop looks for
OptionalCols(file_type) ==
    CASE file_type = "missing_visits" -> {"scheduled_date"}
      [] file_type = "coding_issues" -> {"issue_type"}
      [] file_type = "visit_projections" -> {"actual_date"}
      [] OTHER -> {}

ColumnSets(file_type) ==
    {RequiredCols(file_type) \cup opt : opt \in SUBSET OptionalCols(file_type)}

SeqsUpTo(S, n) == UNION {[1..k -> S] : k \in 0..n}

\* readable extracts of a known type with every required column, of at most n rows
FullFiles(n) ==
    UNION {UNION {UNION {
        {[study |-> st, file_type |-> ft, readable |-> TRUE, columns |-> cols,
          rows |-> rs] : rs \in SeqsUpTo(RowsOf(ft, cols), n)}
        : cols \in ColumnSets(ft)} : ft \in FileTypes} : st \in Studies}

Restrict(row, cols) == [c \in cols |-> row[c]]

\* the columns read with pd.to_datetime
DateCols == {"scheduled_date", "opened_date", "projected_date", "actual_date"}

\* a row every cell of which is well formed
SampleRow(ft) ==
    CHOOSE r \in RowsOf(ft, RequiredCols(ft)) :
        /\ r.site_number = "101"
        /\ \A c \in DOMAIN r \cap DateCols : r[c].kind = "date"

\* extracts of a known type that lack one required column; they hold one row
DeficientFiles ==
    UNION {UNION {
        {[study |-> st, file_type |-> ft, readable |-> TRUE,
          columns |-> RequiredCols(ft) \ {c},
          rows |-> <<Restrict(SampleRow(ft), RequiredCols(ft) \ {c})>>]
           : c \in RequiredCols(ft)} : ft \in FileTypes} : st \in Studies}

\* an extract pd.read_excel cannot read, and one whose declared type has no parser
OtherFiles ==
    {[study |-> st, file_type |-> ft, readable |-> (ft # "missing_labs"),
      columns |-> RequiredCols("missing_labs"),
      rows |-> <<SampleRow("missing_labs")>>]
        : st \in Studies, ft \in {"missing_labs", "inactivated_forms"}}

\* the extracts of the ingestion runs
Files == FullFiles(MaxRows) \cup DeficientFiles \cup OtherFiles

\* the extracts of the whole-pipeline runs: one row each
PipelineFiles == {f \in FullFiles(1) : Len(f.rows) = 1}

-----------------------------------------------------------------------------
(* Sequential pipeline: every handler runs to completion                   *)

NoProcs == <<>>

\* the store is db
StoreIs(db) ==
    /\ sites = db.sites
    /\ patients = db.patients
    /\ visits = db.visits
    /\ forms = db.forms
    /\ queries = db.queries
    /\ labs = db.labs
    /\ codings = db.codings
    /\ alerts = db.alerts
    /\ history = db.history

\* the store before the first extract: site 102 is registered in the study and
\* has no patient yet; every other row is created by the pipeline
RegisteredStore == [EmptyStore EXCEPT !.sites = <<NewSite(1, "102")>>]

Init ==
    /\ StoreIs(RegisteredStore)
    /\ last = [call |-> <<"init">>, result |-> 0, again |-> FALSE]
    /\ uploads = 0
    /\ procs = NoProcs

\* the caps that keep the tables of one behaviour finite
Within(db) == Len(db.history) <= MaxHistory /\ Len(db.alerts) <= MaxAlerts

\* a call has returned: last records it, its result, and whether the call
\* completed just before it was the same call
Returned(call, result) ==
    last' = [call |-> call, result |-> result, again |-> (last.call = call)]

\* ExcelParser(upload).parse() followed by get_errors()
Parse(f) ==
    /\ uploads < MaxUploads
    /\ \E r \in {parse(Store, f)} :
           /\ Commit(r.db)
           /\ Returned(<<"parse", f>>,
                       [success |-> r.success, rows_processed |-> r.rows_processed,
                        errors |-> r.errors])
    /\ uploads' = uploads + 1
    /\ UNCHANGED procs

ProcessExcelFile(f) ==
    /\ uploads < MaxUploads
    /\ \E r \in {process_excel_file(Store, f)} :
           /\ Within(r.db)
           /\ Commit(r.db)
           /\ Returned(<<"process_excel_file", f>>,
                       [success |-> r.success, rows_processed |-> r.rows_processed,
                        errors |-> r.errors])
    /\ uploads' = uploads + 1
    /\ UNCHANGED procs

\* the calculate_dqi view: DQICalculator(site).calculate()
Calculate(s) ==
    /\ \E r \in {calculate(Store, s)} :
           /\ Within(r.db)
           /\ Commit(r.db)
           /\ Returned(<<"calculate", s>>, r.ret)
    /\ UNCHANGED <<uploads, procs>>

CalculateSiteDqi(s) ==
    /\ \E r \in {calculate_site_dqi(Store, s)} :
           /\ Within(r.db)
           /\ Commit(r.db)
           /\ Returned(<<"calculate_site_dqi", s>>, r.ret)
    /\ UNCHANGED <<uploads, procs>>

CalculateAllDqiScores ==
    /\ \E db \in {calculate_all_dqi_scores(Store)} :
           /\ Within(db)
           /\ Commit(db)
           /\ Returned(<<"calculate_all_dqi_scores">>, Len(db.sites))
    /\ UNCHANGED <<uploads, procs>>

CheckDqiAlerts(s) ==
    /\ \E db \in {check_dqi_alerts(Store, s)} :
           /\ Within(db)
           /\ Commit(db)
           /\ Returned(<<"check_dqi_alerts", s>>, 0)
    /\ UNCHANGED <<uploads, procs>>

CheckMissingVisitPatterns ==
    /\ \E db \in {check_missing_visit_patterns(Store)} :
           /\ Within(db)
           /\ Commit(db)
           /\ Returned(<<"check_missing_visit_patterns">>, Cardinality(SitesWithIssues(db)))
    /\ UNCHANGED <<uploads, procs>>

UpdateStatus(p) ==
    /\ \E r \in {update_status(Store, p)} :
           /\ Commit(r.db)
           /\ Returned(<<"update_status", p>>, r.ret)
    /\ UNCHANGED <<uploads, procs>>

ResolveQuery(q) ==
    /\ ~queries[q].is_resolved
    /\ \E db \in {resolve_query(Store, q)} :
           /\ Within(db)
           /\ Commit(db)
           /\ Returned(<<"resolve_query", q>>, 0)
    /\ UNCHANGED <<uploads, procs>>

ResolveAlert(a) ==
    /\ ~alerts[a].is_resolved
    /\ Commit(resolve_alert(Store, a))
    /\ Returned(<<"resolve_alert", a>>, 0)
    /\ UNCHANGED <<uploads, procs>>

\* the extracts of S an upload can still bring
Uploadable(S) == IF uploads < MaxUploads THEN S ELSE {}

PipelineIngest == \E f \in Uploadable(PipelineFiles) : ProcessExcelFile(f)
DqiView == \E s \in DOMAIN sites : Calculate(s)
SiteDqiTask == \E s \in DOMAIN sites : CalculateSiteDqi(s)
AlertTask == \E s \in DOMAIN sites : CheckDqiAlerts(s)
StatusAggregation == \E p \in DOMAIN patients : UpdateStatus(p)
QueryResolution == \E q \in DOMAIN queries : ResolveQuery(q)
AlertResolution == \E a \in DOMAIN alerts : ResolveAlert(a)

Next ==
    \/ PipelineIngest
    \/ DqiView
    \/ SiteDqiTask
    \/ CalculateAllDqiScores
    \/ AlertTask
    \/ CheckMissingVisitPatterns
    \/ StatusAggregation
    \/ QueryResolution
    \/ AlertResolution

Spec == Init /\ [][Next]_vars

-----------------------------------------------------------------------------
(* Ingestion runs: extracts of up to MaxRows rows, deficient extracts      *)

IngestParse == \E f \in Uploadable(Files) : Parse(f)

NextIngest == IngestParse

SpecIngest == Init /\ [][NextIngest]_vars

-----------------------------------------------------------------------------
(* Concurrent invocations: each database access is one step                *)

MaxProcs == 2       \* invocations running at the same time

Procs == 1..MaxProcs

NoSnapshot ==
    [site |-> 0, dqi_score |-> 0, missing_data_score |-> 0, query_score |-> 0,
     visit_completion_score |-> 0, verification_score |-> 0, coding_score |-> 0]

\* an invocation slot: the handler it runs, its position and its locals
Idle ==
    [kind |-> "none", pc |-> "idle", site |-> 0, query |-> 0, score |-> 0,
     empty |-> FALSE, snapshot |-> NoSnapshot, old |-> 0, todo |-> {}]

\* a store in which every alert rule of site 1 has its condition met: eleven
\* queries open for 30 days and five missing visits of one patient, and the
\* default score 0.0 of a site not yet calculated
BusyStore ==
    [EmptyStore EXCEPT
        !.sites = <<NewSite(1, "101")>>,
        !.patients = <<NewPatient(1, "P1")>>,
        !.queries = [i \in 1..(OldQueryThreshold + 1) |->
                        [patient |-> 1, query_id |-> i, opened_date |-> Date(Today - 30),
                         resolved_date |-> NullDate, is_resolved |-> FALSE,
                         days_open |-> 30]],
        !.visits = [i \in 1..MissingVisitThreshold |->
                        [NewVisit(1, i) EXCEPT !.is_missing = TRUE]]]

InitConc ==
    /\ StoreIs(BusyStore)
    /\ last = [call |-> <<"init">>, result |-> 0, again |-> FALSE]
    /\ uploads = 0
    /\ procs = [p \in Procs |-> Idle]

At(p, pc) == procs[p].pc = pc

Goto(p, pc) == procs' = [procs EXCEPT ![p].pc = pc]

UnchangedStore ==
    UNCHANGED <<sites, patients, visits, forms, queries, labs, codings, alerts, history>>

\* check_dqi_alerts: site = Site.objects.get(id=site_id); site.dqi_score < 60
CdaGet(p, s) ==
    /\ At(p, "idle") \/ (At(p, "cda_get") /\ procs[p].site = s)
    /\ procs' = [procs EXCEPT ![p] =
                    [@ EXCEPT !.kind = IF @ = "none" THEN "check_dqi_alerts" ELSE @,
                              !.site = s,
                              !.score = sites[s].dqi_score,
                              !.pc = IF sites[s].dqi_score < DqiDropThreshold
                                     THEN "cda_exists_drop" ELSE "cda_count"]]
    /\ UnchangedStore
    /\ UNCHANGED <<last, uploads>>

\* existing = Alert.objects.filter(..., alert_type='dqi_drop', ...).exists()
CdaExistsDrop(p) ==
    /\ At(p, "cda_exists_drop")
    /\ Goto(p, IF ExistsUnresolved(Store, procs[p].site, "dqi_drop")
               THEN "cda_count" ELSE "cda_create_drop")
    /\ UnchangedStore
    /\ UNCHANGED <<last, uploads>>

\* Alert.objects.create(site=site, alert_type='dqi_drop', ...)
CdaCreateDrop(p) ==
    /\ At(p, "cda_create_drop")
    /\ Commit(CreateAlert(Store, procs[p].site, "dqi_drop",
                          IF procs[p].score < DqiCriticalThreshold
                          THEN "critical" ELSE "high"))
    /\ Goto(p, "cda_count")
    /\ UNCHANGED <<last, uploads>>

\* old_queries = Query.objects.filter(...).count(); old_queries > 10
CdaCount(p) ==
    /\ At(p, "cda_count")
    /\ procs' = [procs EXCEPT ![p] =
                    [@ EXCEPT !.old = OldQueries(Store, procs[p].site),
                              !.pc = IF OldQueries(Store, procs[p].site) > OldQueryThreshold
                                     THEN "cda_exists_age" ELSE "done"]]
    /\ UnchangedStore
    /\ UNCHANGED <<last, uploads>>

\* existing = Alert.objects.filter(..., alert_type='query_age', ...).exists()
CdaExistsAge(p) ==
    /\ At(p, "cda_exists_age")
    /\ Goto(p, IF ExistsUnresolved(Store, procs[p].site, "query_age")
               THEN "done" ELSE "cda_create_age")
    /\ UnchangedStore
    /\ UNCHANGED <<last, uploads>>

\* Alert.objects.create(site=site, alert_type='query_age', ...)
CdaCreateAge(p) ==
    /\ At(p, "cda_create_age")
    /\ Commit(CreateAlert(Store, procs[p].site, "query_age", "high"))
    /\ Goto(p, "done")
    /\ UNCHANGED <<last, uploads>>

\* the site the loop of check_missing_visit_patterns is at
MvpSite(p) == CHOOSE x \in procs[p].todo : \A y \in procs[p].todo : x <= y

\* the loop moves to its next item
MvpNext(p) ==
    procs' = [procs EXCEPT ![p] =
                [@ EXCEPT !.todo = @ \ {MvpSite(p)},
                          !.pc = IF procs[p].todo \ {MvpSite(p)} = {} THEN "done"
                                 ELSE "mvp_exists"]]

\* check_missing_visit_patterns: for item in sites_with_issues evaluates the query
MvpQuery(p) ==
    /\ At(p, "idle")
    /\ procs' = [procs EXCEPT ![p] =
                    [@ EXCEPT !.kind = "check_missing_visit_patterns",
                              !.todo = SitesWithIssues(Store),
                              !.pc = IF SitesWithIssues(Store) = {} THEN "done"
                                     ELSE "mvp_exists"]]
    /\ UnchangedStore
    /\ UNCHANGED <<last, uploads>>

\* existing = Alert.objects.filter(..., alert_type='missing_visits', ...).exists()
MvpExists(p) ==
    /\ At(p, "mvp_exists")
    /\ IF ExistsUnresolved(Store, MvpSite(p), "missing_visits")
       THEN MvpNext(p)
       ELSE Goto(p, "mvp_create")
    /\ UnchangedStore
    /\ UNCHANGED <<last, uploads>>

\* Alert.objects.create(site=site, alert_type='missing_visits', ...)
MvpCreate(p) ==
    /\ At(p, "mvp_create")
    /\ Commit(CreateAlert(Store, MvpSite(p), "missing_visits", "medium"))
    /\ MvpNext(p)
    /\ UNCHANGED <<last, uploads>>

\* where a handler goes on when its DQICalculator.calculate() has returned
AfterCalculate(p) == IF procs[p].kind = "calculate_site_dqi" THEN "cda_get" ELSE "done"

\* DQICalculator(site): self.total_patients = self.patients.count(); the
\* handler is the calculate_dqi view or the calculate_site_dqi task
CalcInit(p, s, kind) ==
    /\ \/ (At(p, "idle") /\ kind # "resolve_query")
       \/ (At(p, "calc_init") /\ procs[p].site = s /\ procs[p].kind = kind)
    /\ procs' = [procs EXCEPT ![p] =
                    [@ EXCEPT !.kind = kind, !.site = s,
                              !.empty = HasNoPatients(Store, s),
                              !.pc = "calc_scores"]]
    /\ UnchangedStore
    /\ UNCHANGED <<last, uploads>>

\* calculate: the guard, then the five sub-scores and their weighted sum
CalcScores(p) ==
    /\ At(p, "calc_scores")
    /\ \E scores \in {Scores(Store, procs[p].site)} :
           procs' = [procs EXCEPT ![p] =
                IF procs[p].empty THEN [@ EXCEPT !.pc = AfterCalculate(p)]
                ELSE [@ EXCEPT !.pc = "calc_save",
                               !.snapshot = Snapshot(procs[p].site, WeightedDqi(scores),
                                                     scores)]]
    /\ UnchangedStore
    /\ UNCHANGED <<last, uploads>>

\* self.site.save()
CalcSave(p) ==
    /\ At(p, "calc_save")
    /\ Commit(SaveSite(Store, procs[p].site, procs[p].snapshot.dqi_score))
    /\ Goto(p, "calc_history")
    /\ UNCHANGED <<last, uploads>>

\* DQIHistory.objects.create(...)
CalcHistory(p) ==
    /\ At(p, "calc_history")
    /\ Commit(CreateSnapshot(Store, procs[p].snapshot))
    /\ Goto(p, AfterCalculate(p))
    /\ UNCHANGED <<last, uploads>>

\* resolve_query: the query is marked resolved and saved
RqSave(p, q) ==
    /\ At(p, "idle")
    /\ ~queries[q].is_resolved
    /\ queries' = [queries EXCEPT ![q] =
                      [@ EXCEPT !.is_resolved = TRUE, !.resolved_date = Date(Today),
                                !.days_open = Today - queries[q].opened_date.day]]
    /\ procs' = [procs EXCEPT ![p] =
                    [@ EXCEPT !.kind = "resolve_query", !.query = q, !.pc = "rq_status"]]
    /\ UNCHANGED <<sites, patients, visits, forms, labs, codings, alerts, history,
                   last, uploads>>

\* query.patient.update_status(), then DQICalculator(query.patient.site)
RqStatus(p) ==
    /\ At(p, "rq_status")
    /\ Commit(update_status(Store, queries[procs[p].query].patient).db)
    /\ procs' = [procs EXCEPT ![p] =
                    [@ EXCEPT !.site = patients[queries[procs[p].query].patient].site,
                              !.pc = "calc_init"]]
    /\ UNCHANGED <<last, uploads>>

\* one query of the store stands for the others: they are alike
ConcQueries == {1}

NextConc ==
    \/ \E p \in Procs, s \in DOMAIN sites : CdaGet(p, s)
    \/ \E p \in Procs : CdaExistsDrop(p)
    \/ \E p \in Procs : CdaCreateDrop(p)
    \/ \E p \in Procs : CdaCount(p)
    \/ \E p \in Procs : CdaExistsAge(p)
    \/ \E p \in Procs : CdaCreateAge(p)
    \/ \E p \in Procs : MvpQuery(p)
    \/ \E p \in Procs : MvpExists(p)
    \/ \E p \in Procs : MvpCreate(p)
    \/ \E p \in Procs, s \in DOMAIN sites,
          kind \in {"calculate", "calculate_site_dqi", "resolve_query"} :
            CalcInit(p, s, kind)
    \/ \E p \in Procs : CalcScores(p)
    \/ \E p \in Procs : CalcSave(p)
    \/ \E p \in Procs : CalcHistory(p)
    \/ \E p \in Procs, q \in ConcQueries : RqSave(p, q)
    \/ \E p \in Procs : RqStatus(p)

SpecConc == InitConc /\ [][NextConc]_vars

-----------------------------------------------------------------------------
(* Status aggregation over patients of every issue count                   *)

MaxOpenQueries == 11    \* unresolved queries of the patient
MaxOtherIssues == 1     \* missing visits, incomplete forms, missing labs: of each

NewForm(visit, is_complete) ==
    [visit |-> visit, is_required |-> TRUE, is_complete |-> is_complete,
     is_verified |-> FALSE]

\* a store of one site and two patients: patient 1 has nq unresolved queries
\* and one resolved, nv missing visits and one visit held, nf incomplete forms
\* and one complete form on that visit, nl missing labs and one lab received;
\* patient 2 has one unresolved query
StatusStore(nq, nv, nf, nl) ==
    [EmptyStore EXCEPT
        !.sites = <<NewSite(1, "101")>>,
        !.patients = <<NewPatient(1, "P1"), NewPatient(1, "P2")>>,
        !.queries = [i \in 1..(nq + 2) |->
                        [patient |-> IF i = nq + 2 THEN 2 ELSE 1, query_id |-> i,
                         opened_date |-> Date(Today - 30),
                         resolved_date |-> IF i = nq + 1 THEN Date(Today) ELSE NullDate,
                         is_resolved |-> (i = nq + 1), days_open |-> 30]],
        !.visits = [i \in 1..(nv + 1) |->
                        [NewVisit(1, i) EXCEPT !.is_missing = (i > 1),
                                               !.is_completed = (i = 1)]],
        !.forms = [i \in 1..(nf + 1) |-> NewForm(1, i > nf)],
        !.labs = [i \in 1..(nl + 1) |->
                        [NewLab(1, 1, "Central", i) EXCEPT !.is_missing = (i <= nl)]]]

InitStatus ==
    /\ \E nq \in 0..MaxOpenQueries, nv \in 0..MaxOtherIssues,
          nf \in 0..MaxOtherIssues, nl \in 0..MaxOtherIssues :
            StoreIs(StatusStore(nq, nv, nf, nl))
    /\ last = [call |-> <<"init">>, result |-> 0, again |-> FALSE]
    /\ uploads = 0
    /\ procs = NoProcs

NextStatus == StatusAggregation

SpecStatus == InitStatus /\ [][NextStatus]_vars

-----------------------------------------------------------------------------
(* Query extracts of two studies run through the whole pipeline            *)

TwoStudies == {1, 2}

\* one-row open_queries extracts uploaded to either study
QueryFiles ==
    {[f EXCEPT !.study = st]
        : f \in {g \in PipelineFiles : g.file_type = "open_queries"}, st \in TwoStudies}

QueryIngest == \E f \in Uploadable(QueryFiles) : ProcessExcelFile(f)

NextStudies == QueryIngest

SpecStudies == Init /\ [][NextStudies]_vars

-----------------------------------------------------------------------------
(* Entry points with a step that raises                                    *)
(* A fault names the step that raises in one invocation and the id of the  *)
(* site, patient or query it raises for; the handlers below follow the     *)
(* try/except blocks of tasks.py and views.py. Writes are committed one by *)
(* one: no handler opens a transaction.                                    *)

FaultPoints ==
    {"upload_get",       \* ExcelUpload.objects.get: no such upload
     "site_get",         \* Site.objects.get: no such site
     "calculate",        \* DQICalculator.calculate raises before it saves
     "history_create",   \* DQIHistory.objects.create raises
     "alert_create",     \* Alert.objects.create raises
     "status_save",      \* Patient.save in update_status raises
     "query_save"}       \* Query.save raises

FaultIds == {1, 2}

NoFault == [point |-> "none", id |-> 0]

Faults == {NoFault} \cup [point : FaultPoints, id : FaultIds]

Hits(fault, point, id) == fault.point = point /\ fault.id = id

\* DQICalculator(site).calculate() under the fault
calculate_with(db, s, fault) ==
    IF Hits(fault, "calculate", s) THEN [db |-> db, raised |-> TRUE]
    ELSE IF Hits(fault, "history_create", s) /\ ~HasNoPatients(db, s)
    THEN [db |-> SaveSite(db, s, WeightedDqi(Scores(db, s))), raised |-> TRUE]
    ELSE [db |-> calculate(db, s).db, raised |-> FALSE]

\* check_dqi_alerts under the fault: its try block holds every step, so the
\* first step that raises ends it with the alerts as they were
check_dqi_alerts_with(db, s, fault) ==
    IF Hits(fault, "site_get", s) THEN db
    ELSE IF Hits(fault, "alert_create", s) THEN db
    ELSE check_dqi_alerts(db, s)

\* calculate_site_dqi under the fault: its try block holds every step
calculate_site_dqi_atomic(db, s, fault) ==
    IF Hits(fault, "site_get", s) \/ Hits(fault, "alert_create", s) THEN db
    ELSE The({IF c.raised THEN c.db ELSE check_dqi_alerts_with(c.db, s, fault)
              : c \in {calculate_with(db, s, fault)}})

calculate_site_dqi_with(db, s, fault) ==
    IF Hits(fault, "site_get", s) THEN db
    ELSE The({IF c.raised THEN c.db ELSE check_dqi_alerts_with(c.db, s, fault)
              : c \in {calculate_with(db, s, fault)}})

RECURSIVE SiteLoopWith(_, _, _)
SiteLoopWith(db, todo, fault) ==
    IF todo = {} THEN db
    ELSE The({The({SiteLoopWith(db1, todo \ {s}, fault)
                   : db1 \in {calculate_site_dqi_with(db, s, fault)}})
              : s \in {CHOOSE x \in todo :
                          \A y \in todo : SiteKey(db, x) <= SiteKey(db, y)}})

\* Patient.update_status under the fault
update_status_with(db, p, fault) ==
    IF Hits(fault, "status_save", p) THEN [db |-> db, raised |-> TRUE]
    ELSE [db |-> update_status(db, p).db, raised |-> FALSE]

\* for patient in patients: patient.update_status(), left at the first raise
RECURSIVE PatientLoopWith(_, _, _)
PatientLoopWith(db, todo, fault) ==
    IF todo = {} THEN [db |-> db, raised |-> FALSE]
    ELSE The({The({IF u.raised THEN u ELSE PatientLoopWith(u.db, todo \ {p}, fault)
                   : u \in {update_status_with(db, p, fault)}})
              : p \in {CHOOSE x \in todo : \A y \in todo : x <= y}})

\* process_excel_file under the fault: one try block around the whole body
process_excel_file_with(db, f, fault) ==
    IF fault.point = "upload_get" THEN [db |-> db, ret |-> "Error", raised |-> FALSE]
    ELSE The({IF ~r.success THEN [db |-> r.db, ret |-> "Processed", raised |-> FALSE]
              ELSE The({[db |-> pl.db,
                         ret |-> IF pl.raised THEN "Error" ELSE "Processed",
                         raised |-> FALSE]
                        : pl \in {PatientLoopWith(
                                     SiteLoopWith(r.db, StudySites(r.db, f.study), fault),
                                     StudyPatients(r.db, f.study), fault)}})
              : r \in {parse(db, f)}})

\* calculate_all_dqi_scores under the fault: no try block of its own
calculate_all_dqi_scores_with(db, fault) ==
    [db |-> SiteLoopWith(db, {s \in DOMAIN db.sites : db.sites[s].status = "active"},
                         fault),
     ret |-> "Calculated", raised |-> FALSE]

\* the loop of check_missing_visit_patterns under the fault: no try block
RECURSIVE PatternLoopWith(_, _, _)
PatternLoopWith(db, todo, fault) ==
    IF todo = {} THEN [db |-> db, ret |-> "Checked", raised |-> FALSE]
    ELSE The({IF Hits(fault, "site_get", s) THEN [db |-> db, ret |-> "", raised |-> TRUE]
              ELSE IF ExistsUnresolved(db, s, "missing_visits")
              THEN PatternLoopWith(db, todo \ {s}, fault)
              ELSE IF Hits(fault, "alert_create", s)
              THEN [db |-> db, ret |-> "", raised |-> TRUE]
              ELSE PatternLoopWith(CreateAlert(db, s, "missing_visits", "medium"),
                                   todo \ {s}, fault)
              : s \in {CHOOSE x \in todo : \A y \in todo : x <= y}})

check_missing_visit_patterns_with(db, fault) ==
    PatternLoopWith(db, SitesWithIssues(db), fault)

\* Query.Meta.ordering = ['-opened_date']: the first of todo, latest opened first
FirstQuery(db, todo) ==
    CHOOSE x \in todo :
        \A y \in todo :
            \/ db.queries[x].opened_date.day > db.queries[y].opened_date.day
            \/ db.queries[x].opened_date.day = db.queries[y].opened_date.day /\ x <= y

\* for query in queries: query.calculate_days_open(), under the fault: no try block
RECURSIVE QueryAgeLoop(_, _, _)
QueryAgeLoop(db, todo, fault) ==
    IF todo = {} THEN [db |-> db, ret |-> "Updated", raised |-> FALSE]
    ELSE The({IF Hits(fault, "query_save", q) THEN [db |-> db, ret |-> "", raised |-> TRUE]
              ELSE QueryAgeLoop(
                      [db EXCEPT !.queries[q].days_open =
                                     Today - db.queries[q].opened_date.day],
                      todo \ {q}, fault)
              : q \in {FirstQuery(db, todo)}})

update_query_ages_with(db, fault) ==
    QueryAgeLoop(db, {q \in DOMAIN db.queries : ~db.queries[q].is_resolved}, fault)

\* query.is_resolved = True; resolved_date = today; days_open = ...; query.save()
MarkResolved(db, q) ==
    [db EXCEPT !.queries[q] =
        [@ EXCEPT !.is_resolved = TRUE, !.resolved_date = Date(Today),
                  !.days_open = Today - db.queries[q].opened_date.day]]

\* the tail of both resolution views: patient.update_status(), then the
\* calculation inside try/except: pass
StatusThenDqi(db, p, fault) ==
    The({IF u.raised THEN [db |-> db, success |-> FALSE]
         ELSE [db |-> calculate_with(u.db, u.db.patients[p].site, fault).db,
               success |-> TRUE]
         : u \in {update_status_with(db, p, fault)}})

\* resolve_query (base/views.py) under the fault
resolve_query_with(db, q, fault) ==
    IF Hits(fault, "query_save", q) THEN [db |-> db, success |-> FALSE]
    ELSE StatusThenDqi(MarkResolved(db, q), db.queries[q].patient, fault)

\* the loop of bulk_resolve_queries under the fault
RECURSIVE BulkLoop(_, _, _)
BulkLoop(db, todo, fault) ==
    IF todo = {} THEN [db |-> db, raised |-> FALSE]
    ELSE The({IF Hits(fault, "query_save", q) THEN [db |-> db, raised |-> TRUE]
              ELSE BulkLoop(MarkResolved(db, q), todo \ {q}, fault)
              : q \in {FirstQuery(db, todo)}})

\* bulk_resolve_queries (base/views.py) under the fault
bulk_resolve_queries_with(db, p, fault) ==
    The({IF l.raised THEN [db |-> l.db, success |-> FALSE]
         ELSE StatusThenDqi(l.db, p, fault)
         : l \in {BulkLoop(db, {q \in DOMAIN db.queries :
                                   db.queries[q].patient = p /\ ~db.queries[q].is_resolved},
                           fault)}})

\* two sites with a patient each, before the first calculation: site 101 has
\* eleven queries open for 30 days and five missing visits, site 102 one query
FaultStore ==
    PatientLoop(
        [EmptyStore EXCEPT
            !.sites = <<NewSite(1, "101"), NewSite(1, "102")>>,
            !.patients = <<NewPatient(1, "P1"), NewPatient(2, "P2")>>,
            !.queries = [i \in 1..(OldQueryThreshold + 2) |->
                            [patient |-> IF i <= OldQueryThreshold + 1 THEN 1 ELSE 2,
                             query_id |-> "Q" \o ToString(i),
                             opened_date |-> Date(Today - 30),
                             resolved_date |-> NullDate, is_resolved |-> FALSE,
                             days_open |-> 30]],
            !.visits = [i \in 1..MissingVisitThreshold |->
                            [NewVisit(1, "V" \o ToString(i)) EXCEPT !.is_missing = TRUE]]],
        {1, 2})

\* one-row open_queries extracts with a date that parses
FaultFiles ==
    {f \in PipelineFiles :
        f.file_type = "open_queries" /\ f.rows[1].opened_date = Date(Today - 30)}

MaxCalls == 2    \* invocations in one behaviour

\* last also counts the invocations so far
InitFaults ==
    /\ StoreIs(FaultStore)
    /\ last = [call |-> <<"init">>, result |-> 0, again |-> FALSE, calls |-> 0]
    /\ uploads = 0
    /\ procs = NoProcs

\* another invocation fits in the behaviour
CanCall == last.calls < MaxCalls

\* an entry point has returned or raised, leaving the store db
Ended(name, arg, fault, db, result) ==
    /\ Within(db)
    /\ Commit(db)
    /\ last' = [call |-> <<name, arg, fault>>, result |-> result,
                again |-> (last.call = <<name, arg, fault>>), calls |-> last.calls + 1]

ProcessExcelFileWith(f, fault) ==
    /\ \E r \in {process_excel_file_with(Store, f, fault)} :
           Ended("process_excel_file", f, fault, r.db, [ret |-> r.ret, raised |-> r.raised])
    /\ uploads' = uploads + 1
    /\ UNCHANGED procs

CalculateSiteDqiWith(s, fault) ==
    /\ \E db \in {calculate_site_dqi_with(Store, s, fault)} :
           Ended("calculate_site_dqi", s, fault, db, [ret |-> "Site", raised |-> FALSE])
    /\ UNCHANGED <<uploads, procs>>

CalculateAllDqiScoresWith(fault) ==
    /\ \E r \in {calculate_all_dqi_scores_with(Store, fault)} :
           Ended("calculate_all_dqi_scores", 0, fault, r.db,
                 [ret |-> r.ret, raised |-> r.raised])
    /\ UNCHANGED <<uploads, procs>>

CheckDqiAlertsWith(s, fault) ==
    /\ \E db \in {check_dqi_alerts_with(Store, s, fault)} :
           Ended("check_dqi_alerts", s, fault, db, [ret |-> "Alerts", raised |-> FALSE])
    /\ UNCHANGED <<uploads, procs>>

CheckMissingVisitPatternsWith(fault) ==
    /\ \E r \in {check_missing_visit_patterns_with(Store, fault)} :
           Ended("check_missing_visit_patterns", 0, fault, r.db,
                 [ret |-> r.ret, raised |-> r.raised])
    /\ UNCHANGED <<uploads, procs>>

UpdateQueryAgesWith(fault) ==
    /\ \E r \in {update_query_ages_with(Store, fault)} :
           Ended("update_query_ages", 0, fault, r.db, [ret |-> r.ret, raised |-> r.raised])
    /\ UNCHANGED <<uploads, procs>>

ResolveQueryWith(q, fault) ==
    /\ ~queries[q].is_resolved
    /\ \E r \in {resolve_query_with(Store, q, fault)} :
           Ended("resolve_query", q, fault, r.db, [ret |-> r.success, raised |-> FALSE])
    /\ UNCHANGED <<uploads, procs>>

BulkResolveQueriesWith(p, fault) ==
    /\ \E r \in {bulk_resolve_queries_with(Store, p, fault)} :
           Ended("bulk_resolve_queries", p, fault, r.db,
                 [ret |-> r.success, raised |-> FALSE])
    /\ UNCHANGED <<uploads, procs>>

FaultyIngest == CanCall /\ \E f \in Uploadable(FaultFiles), fault \in Faults : ProcessExcelFileWith(f, fault)
FaultySiteDqi == CanCall /\ \E s \in DOMAIN sites, fault \in Faults : CalculateSiteDqiWith(s, fault)
FaultySweep == CanCall /\ \E fault \in Faults : CalculateAllDqiScoresWith(fault)
FaultyAlertTask == CanCall /\ \E s \in DOMAIN sites, fault \in Faults : CheckDqiAlertsWith(s, fault)
FaultyPatternTask == CanCall /\ \E fault \in Faults : CheckMissingVisitPatternsWith(fault)
FaultyAgeTask == CanCall /\ \E fault \in Faults : UpdateQueryAgesWith(fault)
FaultyResolution == CanCall /\ \E q \in DOMAIN queries \cap FaultIds, fault \in Faults : ResolveQueryWith(q, fault)
FaultyBulkResolution == CanCall /\ \E p \in DOMAIN patients, fault \in Faults : BulkResolveQueriesWith(p, fault)

NextFaults ==
    \/ FaultyIngest
    \/ FaultySiteDqi
    \/ FaultySweep
    \/ FaultyAlertTask
    \/ FaultyPatternTask
    \/ FaultyAgeTask
    \/ FaultyResolution
    \/ FaultyBulkResolution

SpecFaults == InitFaults /\ [][NextFaults]_vars

-----------------------------------------------------------------------------
(* Concurrent ingestion of open_queries rows                               *)
(* update_or_create reads the rows matching query_id, then creates or      *)
(* saves: the read and the write are two steps of the store. The second    *)
(* class Meta of Query replaces the first, so the model declares no        *)
(* uniqueness and a create never fails on a duplicate.                     *)

\* an ingestion slot: its position, the row it handles and what it has read
IdleIngest == [pc |-> "idle", row |-> <<>>, patient |-> 0, found |-> {}]

\* the rows of concurrent extracts: every date parses
ConcRows == {r \in OpenQueriesRows : r.opened_date.kind = "date"}

\* the store after one open_queries row was ingested
IngestedStore ==
    parse(RegisteredStore,
          CHOOSE f \in FaultFiles :
              f.rows[1].site_number = "101" /\ f.rows[1].query_id = "Q1").db

InitConcIngest ==
    /\ StoreIs(IngestedStore)
    /\ last = [call |-> <<"init">>, result |-> 0, again |-> FALSE]
    /\ uploads = 0
    /\ procs = [p \in Procs |-> IdleIngest]

\* site = get_or_create_site(...); patient = get_or_create_patient(...)
IqPatient(p, row) ==
    /\ At(p, "idle")
    /\ \E sp \in {SiteAndPatient(Store, 1, row)} :
           /\ sites' = sp.db.sites
           /\ patients' = sp.db.patients
           /\ procs' = [procs EXCEPT ![p] =
                           [IdleIngest EXCEPT !.pc = IF sp.ok THEN "iq_get" ELSE "idle",
                                              !.row = row, !.patient = sp.patient]]
    /\ UNCHANGED <<visits, forms, queries, labs, codings, alerts, history, last, uploads>>

\* update_or_create: the get by query_id
IqGet(p) ==
    /\ At(p, "iq_get")
    /\ procs' = [procs EXCEPT ![p] =
                    [@ EXCEPT !.pc = "iq_write",
                              !.found = {i \in DOMAIN queries :
                                            queries[i].query_id
                                                = StrStrip(procs[p].row.query_id)}]]
    /\ UnchangedStore
    /\ UNCHANGED <<last, uploads>>

\* update_or_create: the create when the get found nothing, the save of the
\* row found when it found one, MultipleObjectsReturned otherwise
IqWrite(p) ==
    /\ At(p, "iq_write")
    /\ \E row \in {procs[p].row} :
         \E q \in {UpdateOrCreate(
                      queries, procs[p].found,
                      [patient |-> procs[p].patient, query_id |-> StrStrip(row.query_id),
                       opened_date |-> row.opened_date, resolved_date |-> NullDate,
                       is_resolved |-> FALSE, days_open |-> Today - row.opened_date.day],
                      [patient |-> procs[p].patient, opened_date |-> row.opened_date,
                       is_resolved |-> FALSE, days_open |-> Today - row.opened_date.day])} :
            queries' = q.t
    /\ procs' = [procs EXCEPT ![p] = IdleIngest]
    /\ UNCHANGED <<sites, patients, visits, forms, labs, codings, alerts, history,
                   last, uploads>>

NextConcIngest ==
    \/ \E p \in Procs, row \in ConcRows : IqPatient(p, row)
    \/ \E p \in Procs : IqGet(p)
    \/ \E p \in Procs : IqWrite(p)

SpecConcIngest == InitConcIngest /\ [][NextConcIngest]_vars

-----------------------------------------------------------------------------
(* Concurrent ingestion of missing_labs rows                               *)
(* Each get_or_create and update_or_create of a row is a lookup followed   *)
(* by a write. Site, Patient and Visit declare unique_together on their    *)
(* lookup keys: a create that meets a row of the same key fails and the    *)
(* call returns that row. LabData declares none.                           *)

Stages == <<"site", "patient", "visit", "lab">>

\* an ingestion slot: its position in the row, the row, the objects obtained
\* so far and what the last lookup found
IdleLabs ==
    [pc |-> "idle", stage |-> 0, row |-> <<>>, site |-> 0, patient |-> 0,
     visit |-> 0, found |-> {}]

\* the model of the stage declares unique_together on the lookup key
HasUniqueKey(stage) == Stages[stage] # "lab"

\* the rows of stage's table that match the lookup of slot x
LookupOf(db, x) ==
    CASE Stages[x.stage] = "site" ->
            {i \in DOMAIN db.sites :
                /\ db.sites[i].study = 1
                /\ db.sites[i].site_number = StrStrip(x.row.site_number)}
      [] Stages[x.stage] = "patient" ->
            {i \in DOMAIN db.patients :
                /\ db.patients[i].site = x.site
                /\ db.patients[i].patient_id = StrStrip(x.row.patient_id)}
      [] Stages[x.stage] = "visit" ->
            FindVisits(db.visits, x.patient, StrStrip(x.row.visit))
      [] Stages[x.stage] = "lab" ->
            {i \in DOMAIN db.labs :
                /\ db.labs[i].patient = x.patient
                /\ db.labs[i].visit = x.visit
                /\ db.labs[i].lab_name = StrStrip(x.row.lab_name)
                /\ db.labs[i].test_name = StrStrip(x.row.test_name)}

\* the row the stage creates when its lookup found none
NewOf(x) ==
    CASE Stages[x.stage] = "site" -> NewSite(1, StrStrip(x.row.site_number))
      [] Stages[x.stage] = "patient" -> NewPatient(x.site, StrStrip(x.row.patient_id))
      [] Stages[x.stage] = "visit" -> NewVisit(x.patient, StrStrip(x.row.visit))
      [] Stages[x.stage] = "lab" ->
            NewLab(x.patient, x.visit, StrStrip(x.row.lab_name), StrStrip(x.row.test_name))

TableOf(db, stage) ==
    CASE Stages[stage] = "site" -> db.sites
      [] Stages[stage] = "patient" -> db.patients
      [] Stages[stage] = "visit" -> db.visits
      [] Stages[stage] = "lab" -> db.labs

\* the write of get_or_create and update_or_create after a lookup that found
\* the rows found, the table holding the rows now by the time of the write:
\* under a unique key the create meets IntegrityError and the call returns
\* the row that is there; update_or_create saves the defaults on a row found
WriteAfterLookup(t, found, now, new, unique, defaults) ==
    IF Cardinality(found) > 1 THEN [t |-> t, id |-> 0, ok |-> FALSE]
    ELSE IF found # {}
         THEN LET i == CHOOSE x \in found : TRUE
              IN  [t |-> [t EXCEPT ![i] = SetFields(t[i], defaults)], id |-> i, ok |-> TRUE]
    ELSE IF unique /\ now # {}
         THEN [t |-> t, id |-> CHOOSE i \in now : TRUE, ok |-> TRUE]
    ELSE [t |-> Append(t, new), id |-> Len(t) + 1, ok |-> TRUE]

InitConcLabs ==
    /\ StoreIs(EmptyStore)
    /\ last = [call |-> <<"init">>, result |-> 0, again |-> FALSE]
    /\ uploads = 0
    /\ procs = [p \in Procs |-> IdleLabs]

\* for idx, row in df.iterrows(): the next row of the slot's extract
ClRow(p, row) ==
    /\ At(p, "idle")
    /\ procs' = [procs EXCEPT ![p] = [IdleLabs EXCEPT !.pc = "get", !.stage = 1, !.row = row]]
    /\ UnchangedStore
    /\ UNCHANGED <<last, uploads>>

\* the lookup of the stage's get_or_create or update_or_create
ClGet(p) ==
    /\ At(p, "get")
    /\ procs' = [procs EXCEPT ![p] = [@ EXCEPT !.pc = "write",
                                               !.found = LookupOf(Store, procs[p])]]
    /\ UnchangedStore
    /\ UNCHANGED <<last, uploads>>

\* the write of the stage; the slot goes on to the next stage, or to the next
\* row after the last stage and after an exception
ClWrite(p) ==
    /\ At(p, "write")
    /\ \E x \in {procs[p]} :
         \E w \in {WriteAfterLookup(TableOf(Store, x.stage), x.found, LookupOf(Store, x),
                                    NewOf(x), HasUniqueKey(x.stage),
                                    IF Stages[x.stage] = "lab"
                                    THEN [is_missing |-> TRUE] ELSE <<>>)} :
            /\ sites' = IF Stages[x.stage] = "site" THEN w.t ELSE sites
            /\ patients' = IF Stages[x.stage] = "patient" THEN w.t ELSE patients
            /\ visits' = IF Stages[x.stage] = "visit" THEN w.t ELSE visits
            /\ labs' = IF Stages[x.stage] = "lab" THEN w.t ELSE labs
            /\ procs' = [procs EXCEPT ![p] =
                            IF ~w.ok \/ x.stage = Len(Stages) THEN IdleLabs
                            ELSE [x EXCEPT !.pc = "get", !.stage = x.stage + 1, !.found = {},
                                           !.site = IF x.stage = 1 THEN w.id ELSE @,
                                           !.patient = IF x.stage = 2 THEN w.id ELSE @,
                                           !.visit = IF x.stage = 3 THEN w.id ELSE @]]
    /\ UNCHANGED <<forms, queries, codings, alerts, history, last, uploads>>

NextConcLabs ==
    \/ \E p \in Procs : ClWrite(p)
    \/ \E p \in Procs : ClGet(p)
    \/ \E p \in Procs, row \in MissingLabsRows : ClRow(p, row)

SpecConcLabs == InitConcLabs /\ [][NextConcLabs]_vars

-----------------------------------------------------------------------------
(* Visit rows of the three extracts that write Visits, in any order        *)

\* the readable extracts of the types whose parsers create or update Visits
VisitFiles ==
    {f \in Files : /\ f.file_type \in {"missing_labs", "missing_visits", "visit_projections"}
                   /\ f.readable
                   /\ Len(f.rows) >= 1}

\* ExcelParser(upload).parse(), any number of times
VisitIngest(f) ==
    /\ \E r \in {parse(Store, f)} :
           /\ Commit(r.db)
           /\ Returned(<<"parse", f>>,
                       [success |-> r.success, rows_processed |-> r.rows_processed,
                        errors |-> r.errors])
    /\ UNCHANGED <<uploads, procs>>

NextVisits == \E f \in VisitFiles : VisitIngest(f)

SpecVisits == Init /\ [][NextVisits]_vars

-----------------------------------------------------------------------------
(* Alert rules at their thresholds                                         *)

\* scores in hundredths on both sides of 45 and of 60
ScoreSamples == {0, 4499, 4500, 5999, 6000, 10000}

\* the alert table before the evaluation: empty, or one alert of site 1
PriorAlerts ==
    {<<>>} \cup
    {<<[site |-> 1, alert_type |-> t, severity |-> "low", is_resolved |-> r]>>
        : t \in {"dqi_drop", "query_age", "missing_visits"}, r \in BOOLEAN}

\* two sites with a patient each. Site 1 has the score given, nold unresolved
\* queries open for exactly 21 days, one unresolved query open for 20 days,
\* one resolved query that was open for 30, m1 missing visits and one visit
\* held; site 2 has m2 missing visits
AlertStore(score, nold, m1, m2, prior) ==
    [EmptyStore EXCEPT
        !.sites = <<[NewSite(1, "101") EXCEPT !.dqi_score = score,
                                              !.last_calculated = Date(Today)],
                    [NewSite(1, "102") EXCEPT !.dqi_score = 10000,
                                              !.last_calculated = Date(Today)]>>,
        !.patients = <<NewPatient(1, "P1"), NewPatient(2, "P2")>>,
        !.queries = [i \in 1..(nold + 2) |->
                        [patient |-> 1, query_id |-> "Q" \o ToString(i),
                         opened_date |-> Date(Today - (IF i = nold + 1 THEN OldQueryDays - 1
                                                       ELSE IF i = nold + 2 THEN 30
                                                       ELSE OldQueryDays)),
                         resolved_date |-> IF i = nold + 2 THEN Date(Today) ELSE NullDate,
                         is_resolved |-> (i = nold + 2),
                         days_open |-> IF i = nold + 1 THEN OldQueryDays - 1
                                       ELSE IF i = nold + 2 THEN 30 ELSE OldQueryDays]],
        !.visits = [i \in 1..(m1 + m2 + 1) |->
                        [NewVisit(IF i <= m1 + 1 THEN 1 ELSE 2, "V" \o ToString(i)) EXCEPT
                            !.is_missing = (i # m1 + 1),
                            !.is_completed = (i = m1 + 1)]],
        !.alerts = prior]

InitAlerts ==
    /\ \E score \in ScoreSamples,
          nold \in {OldQueryThreshold, OldQueryThreshold + 1},
          m1 \in {MissingVisitThreshold - 1, MissingVisitThreshold},
          m2 \in {MissingVisitThreshold - 1, MissingVisitThreshold},
          prior \in PriorAlerts :
            StoreIs(AlertStore(score, nold, m1, m2, prior))
    /\ last = [call |-> <<"init">>, result |-> 0, again |-> FALSE]
    /\ uploads = 0
    /\ procs = NoProcs

\* alert_action (base/views.py): an empty action_taken is refused
alert_action(db, a, action_taken) ==
    IF action_taken = "" THEN db ELSE [db EXCEPT !.alerts[a].is_resolved = TRUE]

\* resolve_all_alerts (base/views.py): filter(is_resolved=False).update(...)
resolve_all_alerts(db) ==
    [db EXCEPT !.alerts = [i \in DOMAIN db.alerts |->
                              [db.alerts[i] EXCEPT !.is_resolved = TRUE]]]

AlertAction(a, action_taken) ==
    /\ Commit(alert_action(Store, a, action_taken))
    /\ Returned(<<"alert_action", a, action_taken>>, action_taken # "")
    /\ UNCHANGED <<uploads, procs>>

ResolveAllAlerts ==
    /\ \E i \in DOMAIN alerts : ~alerts[i].is_resolved
    /\ Commit(resolve_all_alerts(Store))
    /\ Returned(<<"resolve_all_alerts">>, 0)
    /\ UNCHANGED <<uploads, procs>>

AlertActionView == \E a \in DOMAIN alerts, t \in {"", "called the site"} : AlertAction(a, t)

NextAlerts ==
    \/ AlertTask
    \/ CheckMissingVisitPatterns
    \/ AlertResolution
    \/ AlertActionView
    \/ ResolveAllAlerts

SpecAlerts == InitAlerts /\ [][NextAlerts]_vars

-----------------------------------------------------------------------------
(* Properties                                                              *)

\* the unresolved alerts of type t on site s in the alert table al
UnresolvedIn(al, s, t) ==
    {i \in DOMAIN al : al[i].site = s /\ al[i].alert_type = t /\ ~al[i].is_resolved}

\* the alerts of type t on site s in the alert table al
AlertsIn(al, s, t) ==
    {i \in DOMAIN al : al[i].site = s /\ al[i].alert_type = t}

\* C2: when check_dqi_alerts is called on a site a second time in a row, the
\* site's score being below 60, the call creates no dqi_drop alert and the site
\* has exactly one unresolved dqi_drop alert afterwards.
C2_SecondCheckCreatesNothing ==
    [][\A s \in DOMAIN sites :
          (/\ last.call = <<"check_dqi_alerts", s>>
           /\ last'.call = <<"check_dqi_alerts", s>>
           /\ last'.again
           /\ sites[s].dqi_score < 6000)
          => /\ AlertsIn(alerts', s, "dqi_drop") = AlertsIn(alerts, s, "dqi_drop")
             /\ Cardinality(UnresolvedIn(alerts', s, "dqi_drop")) = 1]_vars

C2_Witness ==
    /\ last.call[1] = "check_dqi_alerts"
    /\ last.again
    /\ sites[last.call[2]].dqi_score < 6000
    /\ Cardinality(UnresolvedIn(alerts, last.call[2], "dqi_drop")) = 1

\* C3: calculate on a site without patients returns 0 and leaves the DQIHistory
\* table as it was.
C3_EmptySiteNoHistory ==
    [][\A s \in DOMAIN sites :
          (last'.call = <<"calculate", s>> /\ SitePatients(Store, s) = {})
          => (last'.result = 0 /\ history' = history)]_vars

C3_Witness ==
    /\ last.call[1] = "calculate"
    /\ SitePatients(Store, last.call[2]) = {}
    /\ last.result = 0
    /\ \E s \in DOMAIN sites : SitePatients(Store, s) # {}

\* C4: when calculate is called on a site with patients again, right after a
\* calculate on the same site, it returns the same score, leaves Site.dqi_score
\* as it was and appends exactly one DQIHistory row, of that site.
C4_RepeatableCalculation ==
    [][\A s \in DOMAIN sites :
          (/\ last.call = <<"calculate", s>>
           /\ last'.call = <<"calculate", s>>
           /\ last'.again
           /\ SitePatients(Store, s) # {})
          => /\ last'.result = last.result
             /\ sites'[s].dqi_score = sites[s].dqi_score
             /\ Len(history') = Len(history) + 1
             /\ history'[Len(history')].site = s]_vars

C4_Witness ==
    /\ last.call[1] = "calculate"
    /\ last.again
    /\ SitePatients(Store, last.call[2]) # {}
    /\ Cardinality({i \in DOMAIN history : history[i].site = last.call[2]}) >= 3

\* C5: no step removes or changes a DQIHistory row: the table only grows at
\* its end.
C5_HistoryAppendOnly ==
    [][/\ Len(history') >= Len(history)
       /\ \A i \in DOMAIN history : history'[i] = history[i]]_vars

C5_Witness ==
    /\ Len(history) >= 2
    /\ history[1].site = history[2].site
    /\ history[1].dqi_score # history[2].dqi_score
    /\ last.call[1] = "resolve_alert"

ScoreRange == 0..10000

\* C7: the five sub-scores of every snapshot and every Site.dqi_score lie in
\* [0, 100].
C7_ScoresInRange ==
    /\ \A s \in DOMAIN sites : sites[s].dqi_score \in ScoreRange
    /\ \A i \in DOMAIN history :
          /\ history[i].missing_data_score \in ScoreRange
          /\ history[i].query_score \in ScoreRange
          /\ history[i].visit_completion_score \in ScoreRange
          /\ history[i].verification_score \in ScoreRange
          /\ history[i].coding_score \in ScoreRange

\* C8: every snapshot's overall score is the sum of its sub-scores weighted
\* 30, 25, 20, 15 and 10, and a snapshot of five sub-scores of 100 has the
\* overall score 100.
C8_EffectiveWeights ==
    \A i \in DOMAIN history :
        LET h == history[i]
        IN  /\ h.dqi_score = 30 * h.missing_data_score + 25 * h.query_score
                             + 20 * h.visit_completion_score
                             + 15 * h.verification_score + 10 * h.coding_score
            /\ (/\ h.missing_data_score = 10000
                /\ h.query_score = 10000
                /\ h.visit_completion_score = 10000
                /\ h.verification_score = 10000
                /\ h.coding_score = 10000) => h.dqi_score = 1000000

C8_Witness ==
    \E i, j \in DOMAIN history :
        /\ history[i].dqi_score = 1000000
        /\ history[j].query_score \notin {0, 10000}
        /\ history[j].site = history[i].site

\* the rows of the store that carry the natural keys of row r of an extract of
\* study st
KeySites(st, r) ==
    {i \in DOMAIN sites :
        sites[i].study = st /\ sites[i].site_number = StrStrip(r.site_number)}

KeyPatients(st, r) ==
    {i \in DOMAIN patients :
        patients[i].site \in KeySites(st, r)
        /\ patients[i].patient_id = StrStrip(r.patient_id)}

KeyVisits(st, r, visit_number) ==
    {i \in DOMAIN visits :
        visits[i].patient \in KeyPatients(st, r)
        /\ visits[i].visit_number = StrStrip(visit_number)}

KeyLabs(st, r) ==
    {i \in DOMAIN labs :
        /\ labs[i].patient \in KeyPatients(st, r)
        /\ labs[i].visit \in KeyVisits(st, r, r.visit)
        /\ labs[i].lab_name = StrStrip(r.lab_name)
        /\ labs[i].test_name = StrStrip(r.test_name)}

\* the extract of the last call, when that call is an ingestion
LastFile == last.call[2]

ParsedLast(file_type) ==
    /\ last.call[1] = "parse"
    /\ LastFile.file_type = file_type
    /\ LastFile.readable
    /\ RequiredCols(file_type) \subseteq LastFile.columns

\* C9: after a missing_labs extract is parsed, every row of it (a row that
\* occurs twice in the extract, or was ingested by the previous extract,
\* included) has exactly one Site, one Patient, one Visit and one LabData
\* record under its keys, the LabData record is missing, and rows_processed
\* counts every row.
C9_MissingLabsUpsert ==
    ParsedLast("missing_labs") =>
        /\ last.result.rows_processed = Len(LastFile.rows)
        /\ \A k \in DOMAIN LastFile.rows :
              LET r == LastFile.rows[k]
              IN  /\ Cardinality(KeySites(LastFile.study, r)) = 1
                  /\ Cardinality(KeyPatients(LastFile.study, r)) = 1
                  /\ Cardinality(KeyVisits(LastFile.study, r, r.visit)) = 1
                  /\ Cardinality(KeyLabs(LastFile.study, r)) = 1
                  /\ \A l \in KeyLabs(LastFile.study, r) : labs[l].is_missing

\* the same row twice in one extract, after the same extract was ingested before
C9_Witness ==
    /\ ParsedLast("missing_labs")
    /\ last.again
    /\ Len(LastFile.rows) = 2
    /\ LastFile.rows[1] = LastFile.rows[2]
    /\ last.result.rows_processed = 2
    /\ Len(labs) = 1

\* the tables the ingestion writes
Ingested == <<sites, patients, visits, queries, labs, codings>>

\* C10: parsing an extract of a known type that lacks a required column
\* processes no row, records an error and leaves every Site, Patient, Visit,
\* Query, LabData and CodingIssue record as it was.
C10_MissingColumnAborts ==
    [][(/\ last'.call[1] = "parse"
        /\ last'.call[2].readable
        /\ last'.call[2].file_type \in FileTypes
        /\ ~(RequiredCols(last'.call[2].file_type) \subseteq last'.call[2].columns))
       => /\ last'.result.rows_processed = 0
          /\ Len(last'.result.errors) > 0
          /\ UNCHANGED Ingested]_vars

\* a deficient extract of the given type was parsed when the store held rows
DeficientParsed(file_type) ==
    /\ last.call[1] = "parse"
    /\ last.call[2].file_type = file_type
    /\ ~(RequiredCols(file_type) \subseteq last.call[2].columns)
    /\ last.result.rows_processed = 0
    /\ Len(patients) > 0

C10_Witness ==
    /\ DeficientParsed("open_queries")
    /\ "opened_date" \notin last.call[2].columns

AlertTypes == {"dqi_drop", "query_age", "missing_visits"}

\* C1: a site never has two unresolved alerts of the same type among dqi_drop,
\* query_age and missing_visits.
C1_AtMostOneUnresolved ==
    \A s \in DOMAIN sites : \A t \in AlertTypes :
        Cardinality(UnresolvedIn(alerts, s, t)) <= 1

\* the positions of a handler inside DQICalculator
CalcPcs == {"calc_init", "calc_scores", "calc_save", "calc_history"}

Calculating(s) ==
    \E p \in DOMAIN procs : procs[p].pc \in CalcPcs /\ procs[p].site = s

SiteHistory(s) == {i \in DOMAIN history : history[i].site = s}

LatestSnapshot(s) == history[CHOOSE i \in SiteHistory(s) : \A j \in SiteHistory(s) : j <= i]

\* C6: while no calculation of a site is in progress, the site's dqi_score is
\* the overall score of its latest snapshot rounded to 2 decimals.
C6_CachedScoreIsLatestSnapshot ==
    \A s \in DOMAIN sites :
        (SiteHistory(s) # {} /\ ~Calculating(s))
        => sites[s].dqi_score = Round2(LatestSnapshot(s).dqi_score)

\* a row one of whose date cells pd.to_datetime cannot parse
BadDateRow(row) == \E c \in DOMAIN row \cap DateCols : row[c] = BAD

\* extract f without its rows of unparsable dates
ValidRowsOnly(f) ==
    LET Valid(row) == ~BadDateRow(row)
    IN  [f EXCEPT !.rows = SelectSeq(f.rows, Valid)]

\* the file types whose rows carry a date column
DateFileTypes == {"open_queries", "visit_projections", "missing_visits"}

\* C11: parsing an extract of a type with date columns counts exactly the rows
\* whose dates parse, records one error for each other row, and leaves the
\* store as parsing the extract without the rows of unparsable dates does: such
\* a row creates and changes no Site, Patient, Visit or Query.
C11_BadDateRowHasNoEffect ==
    [][(/\ last'.call[1] = "parse"
        /\ last'.call[2].readable
        /\ last'.call[2].file_type \in DateFileTypes
        /\ RequiredCols(last'.call[2].file_type) \subseteq last'.call[2].columns)
       => \E valid \in {ValidRowsOnly(last'.call[2])} :
            \E r \in {parse(Store, valid)} :
              /\ last'.result.rows_processed = Len(valid.rows)
              /\ Len(last'.result.errors) = Len(last'.call[2].rows) - Len(valid.rows)
              /\ \A i \in DOMAIN last'.result.errors : last'.result.errors[i].kind = "row"
              /\ sites' = r.db.sites
              /\ patients' = r.db.patients
              /\ visits' = r.db.visits
              /\ queries' = r.db.queries]_vars

\* C12: parse returns success = false exactly when the file is unreadable or
\* its declared type is none of the five known types, and then with
\* rows_processed = 0.
C12_SuccessFalseOnFileFailure ==
    [][last'.call[1] = "parse"
       => /\ last'.result.success
               = ~(~last'.call[2].readable \/ last'.call[2].file_type \notin FileTypes)
          /\ (~last'.result.success => last'.result.rows_processed = 0)]_vars

\* the issues of patient p counted table by table
OpenQueriesOf(p) == {i \in DOMAIN queries : queries[i].patient = p /\ ~queries[i].is_resolved}

MissingVisitsOf(p) == {i \in DOMAIN visits : visits[i].patient = p /\ visits[i].is_missing}

IncompleteFormsOf(p) ==
    {i \in DOMAIN forms : visits[forms[i].visit].patient = p /\ ~forms[i].is_complete}

MissingLabsOf(p) == {i \in DOMAIN labs : labs[i].patient = p /\ labs[i].is_missing}

IssuesOf(p) ==
    Cardinality(OpenQueriesOf(p)) + Cardinality(MissingVisitsOf(p))
    + Cardinality(IncompleteFormsOf(p)) + Cardinality(MissingLabsOf(p))

\* C13: update_status stores in issues_count, and returns, the number of the
\* patient's unresolved queries, missing visits, incomplete forms and missing
\* labs, and sets status and is_clean by the buckets 0 -> clean/true,
\* 1..3 -> minor_issues/false, 4..10 -> major_issues/false, 11 and more ->
\* critical/false; no other patient is changed.
C13_StatusBuckets ==
    [][\A p \in DOMAIN patients :
          last'.call = <<"update_status", p>>
          => /\ patients'[p].issues_count = IssuesOf(p)
             /\ last'.result = IssuesOf(p)
             /\ (IssuesOf(p) = 0
                    => patients'[p].status = "clean" /\ patients'[p].is_clean)
             /\ (IssuesOf(p) \in 1..3
                    => patients'[p].status = "minor_issues" /\ ~patients'[p].is_clean)
             /\ (IssuesOf(p) \in 4..10
                    => patients'[p].status = "major_issues" /\ ~patients'[p].is_clean)
             /\ (IssuesOf(p) >= 11
                    => patients'[p].status = "critical" /\ ~patients'[p].is_clean)
             /\ \A o \in DOMAIN patients \ {p} : patients'[o] = patients[o]]_vars

\* a patient classified at 11 issues, of every counted kind
C13_Witness ==
    /\ last.call = <<"update_status", 1>>
    /\ patients[1].issues_count = 11
    /\ patients[1].status = "critical"
    /\ MissingVisitsOf(1) # {} /\ IncompleteFormsOf(1) # {} /\ MissingLabsOf(1) # {}

\* C14: when process_excel_file returns for a file whose parse succeeded, every
\* site of the file's study that has patients has one more snapshot and caches
\* its score (a site without patients has score 0), and
\* every patient whose unresolved queries, missing visits, incomplete forms or
\* missing labs the file changed, of whichever study, has issues_count and
\* status equal to the aggregate over the store as it now is.
C14_AffectedPatientsReaggregated ==
    [][(last'.call[1] = "process_excel_file" /\ last'.result.success)
       => /\ \A s \in DOMAIN sites' :
                sites'[s].study = last'.call[2].study
                => IF \A p \in DOMAIN patients' : patients'[p].site # s
                   THEN sites'[s].dqi_score = 0
                   ELSE /\ Cardinality(SiteHistory(s)') = Cardinality(SiteHistory(s)) + 1
                        /\ sites'[s].dqi_score = Round2(LatestSnapshot(s)'.dqi_score)
          /\ \A p \in DOMAIN patients :
                (\/ OpenQueriesOf(p)' # OpenQueriesOf(p)
                 \/ MissingVisitsOf(p)' # MissingVisitsOf(p)
                 \/ IncompleteFormsOf(p)' # IncompleteFormsOf(p)
                 \/ MissingLabsOf(p)' # MissingLabsOf(p))
                => /\ patients'[p].issues_count = IssuesOf(p)'
                   /\ patients'[p].status = StatusOf(IssuesOf(p)')]_vars

\* C15: ingesting the file that was ingested just before leaves the Site,
\* Patient, Visit, Query, LabData and CodingIssue records as they were after
\* the first ingestion, for every file type.
C15_ReingestionIdempotent ==
    [][(last'.call[1] = "parse" /\ last'.again)
       => /\ sites' = sites
          /\ patients' = patients
          /\ visits' = visits
          /\ queries' = queries
          /\ labs' = labs
          /\ codings' = codings]_vars

\* the pipeline entry points of base/tasks.py
EntryPoints ==
    {"process_excel_file", "calculate_site_dqi", "calculate_all_dqi_scores",
     "check_dqi_alerts", "check_missing_visit_patterns", "update_query_ages"}

\* C16: whichever step raises inside it, every entry point of base/tasks.py
\* returns a value: no exception leaves it.
C16_EntryPointsNeverRaise ==
    last.call[1] \in EntryPoints => ~last.result.raised

\* what the loops of the invocation last' records leave when no step raises
Unfaulted ==
    IF last'.call[1] = "process_excel_file"
    THEN process_excel_file(Store, last'.call[2]).db
    ELSE calculate_all_dqi_scores(Store)

\* the snapshots and alerts of site s in the tables given
OfSite(rows, s) == LET Mine(r) == r.site = s IN SelectSeq(rows, Mine)

\* C17: in calculate_all_dqi_scores and in process_excel_file, when a step
\* raises for one site or one patient, every other site has the score,
\* snapshots and alerts, and every other patient the issues_count and status,
\* that the invocation gives them when nothing raises.
C17_FailureIsolatedPerEntity ==
    [][(/\ last'.call[1] \in {"process_excel_file", "calculate_all_dqi_scores"}
        /\ last'.call[3].point \in FaultPoints \ {"upload_get"})
       => \E ref \in {Unfaulted} :
            /\ \A s \in DOMAIN ref.sites :
                  (last'.call[3].point # "status_save" /\ last'.call[3].id = s)
                  \/ /\ sites'[s] = ref.sites[s]
                     /\ OfSite(history', s) = OfSite(ref.history, s)
                     /\ OfSite(alerts', s) = OfSite(ref.alerts, s)
            /\ \A p \in DOMAIN ref.patients :
                  (last'.call[3].point = "status_save" /\ last'.call[3].id = p)
                  \/ patients'[p] = ref.patients[p]]_vars

\* C18: a step that raises later leaves the earlier writes in place: when alert
\* creation raises inside calculate_site_dqi the site keeps the score and the
\* snapshot the calculation wrote, and when the DQI calculation raises inside
\* resolve_query or bulk_resolve_queries the queries stay resolved and the
\* patient keeps the issues_count and status of the aggregation.
C18_LaterFailureKeepsEarlierWrites ==
    [][/\ (/\ last'.call[1] = "calculate_site_dqi"
           /\ last'.call[3] = [point |-> "alert_create", id |-> last'.call[2]])
          => \E c \in {calculate(Store, last'.call[2]).db} :
                sites' = c.sites /\ history' = c.history
       /\ (/\ last'.call[1] = "resolve_query"
           /\ last'.call[3].point \in {"calculate", "history_create"})
          => \E p \in {queries[last'.call[2]].patient} :
                /\ queries'[last'.call[2]].is_resolved
                /\ patients'[p].issues_count = IssuesOf(p)'
                /\ patients'[p].status = StatusOf(IssuesOf(p)')
       /\ (/\ last'.call[1] = "bulk_resolve_queries"
           /\ last'.call[3].point \in {"calculate", "history_create"})
          => \E p \in {last'.call[2]} :
                /\ OpenQueriesOf(p)' = {}
                /\ patients'[p].issues_count = IssuesOf(p)'
                /\ patients'[p].status = StatusOf(IssuesOf(p)')]_vars

\* calculate_site_dqi has ended after its alert creation raised: the site has a
\* snapshot and a score, and no query_age alert although eleven queries are old
C18_Witness ==
    /\ last.call[1] = "calculate_site_dqi"
    /\ last.call[3] = [point |-> "alert_create", id |-> last.call[2]]
    /\ SiteHistory(last.call[2]) # {}
    /\ sites[last.call[2]].last_calculated = Date(Today)
    /\ OldQueries(Store, last.call[2]) > OldQueryThreshold
    /\ ~ExistsUnresolved(Store, last.call[2], "query_age")

\* the patients of db the row of a one-row extract f names
RowPatients(db, f) ==
    {p \in DOMAIN db.patients :
        /\ db.patients[p].patient_id = StrStrip(f.rows[1].patient_id)
        /\ db.sites[db.patients[p].site].site_number = StrStrip(f.rows[1].site_number)
        /\ db.sites[db.patients[p].site].study = f.study}

\* the queries of db whose query_id is that of the row of f
RowQueries(db, f) ==
    {i \in DOMAIN db.queries : db.queries[i].query_id = StrStrip(f.rows[1].query_id)}

\* C19: after the row of an open_queries extract is ingested, the store holds
\* exactly one Query with the row's query_id; it belongs to the row's patient,
\* is unresolved, and its days_open is today minus the row's opened_date.
C19_OneQueryPerIdAfterIngestion ==
    [][(/\ last'.call[1] = "process_excel_file"
        /\ last'.call[2].file_type = "open_queries"
        /\ last'.result.rows_processed = 1)
       => /\ Cardinality(RowQueries(Store', last'.call[2])) = 1
          /\ \A i \in RowQueries(Store', last'.call[2]) :
                /\ queries'[i].patient \in RowPatients(Store', last'.call[2])
                /\ ~queries'[i].is_resolved
                /\ queries'[i].days_open = Today - last'.call[2].rows[1].opened_date.day
                /\ queries'[i].opened_date = last'.call[2].rows[1].opened_date]_vars

\* a query that had been resolved has been ingested again: it is open, and
\* keeps the resolved_date of its resolution
C19_Witness ==
    /\ last.call[1] = "process_excel_file"
    /\ last.call[2].file_type = "open_queries"
    /\ last.result.rows_processed = 1
    /\ \E i \in RowQueries(Store, last.call[2]) :
          /\ queries[i].resolved_date # NullDate
          /\ ~queries[i].is_resolved

\* C20: no two Query records have the same patient and the same query_id, also
\* while two ingestion runs upsert the same query_id at once.
C20_QueryKeyUnique ==
    \A i, j \in DOMAIN queries :
        (queries[i].patient = queries[j].patient
         /\ queries[i].query_id = queries[j].query_id) => i = j

\* the type the claim gives a row: the supplied one when it is a known type,
\* else 'meddra'
ClaimedIssueType(row) ==
    IF "issue_type" \in DOMAIN row /\ StrLower(row.issue_type) \in CodingTypes
    THEN StrLower(row.issue_type)
    ELSE "meddra"

\* C21: a coding_issues extract all of whose rows are processed adds one
\* unresolved CodingIssue per row, in row order, with no dedup, and the type of
\* each is the supplied issue_type when that is meddra, whodd or other and
\* 'meddra' otherwise.
C21_CodingIssueCreatedPerRow ==
    [][(/\ last'.call[1] = "parse"
        /\ last'.call[2].file_type = "coding_issues"
        /\ last'.call[2].readable
        /\ last'.result.rows_processed = Len(last'.call[2].rows))
       => /\ Len(codings') = Len(codings) + Len(last'.call[2].rows)
          /\ \A k \in DOMAIN codings : codings'[k] = codings[k]
          /\ \A k \in DOMAIN last'.call[2].rows :
                /\ ~codings'[Len(codings) + k].is_resolved
                /\ codings'[Len(codings) + k].term = StrStrip(last'.call[2].rows[k].term)
                /\ codings'[Len(codings) + k].issue_type
                      = ClaimedIssueType(last'.call[2].rows[k])]_vars

\* the type a row is stored with: 'meddra' without an issue_type column, the
\* supplied type in lower case when that is a known type, else 'other'
StoredIssueType(row) ==
    IF "issue_type" \notin DOMAIN row THEN "meddra"
    ELSE IF StrLower(row.issue_type) \in CodingTypes THEN StrLower(row.issue_type)
    ELSE "other"

\* C21 as amended: a coding_issues extract all of whose rows are processed
\* adds one unresolved CodingIssue per row, in row order, with no dedup; the
\* type of each is the supplied issue_type when that is meddra, whodd or
\* other, 'other' when it is anything else, and 'meddra' when the extract has
\* no issue_type column.
C21_CodingIssueTypeOther ==
    [][(/\ last'.call[1] = "parse"
        /\ last'.call[2].file_type = "coding_issues"
        /\ last'.call[2].readable
        /\ last'.result.rows_processed = Len(last'.call[2].rows))
       => /\ Len(codings') = Len(codings) + Len(last'.call[2].rows)
          /\ \A k \in DOMAIN codings : codings'[k] = codings[k]
          /\ \A k \in DOMAIN last'.call[2].rows :
                /\ ~codings'[Len(codings) + k].is_resolved
                /\ codings'[Len(codings) + k].term = StrStrip(last'.call[2].rows[k].term)
                /\ codings'[Len(codings) + k].issue_type
                      = StoredIssueType(last'.call[2].rows[k])]_vars

\* an extract of two rows with the same term and an unknown type was
\* processed: the patient has two issues of type 'other' with that term
C21_Witness ==
    /\ last.call[1] = "parse"
    /\ last.call[2].file_type = "coding_issues"
    /\ last.result.rows_processed = 2
    /\ \E i, j \in DOMAIN codings :
          /\ i # j
          /\ codings[i] = codings[j]
          /\ codings[i].issue_type = "other"

\* the visits of db that the row names: those of the row's patient, at the
\* row's site of the study, with the row's visit_number
VisitsOfRow(db, study, row) ==
    {v \in DOMAIN db.visits :
        /\ db.visits[v].visit_number = StrStrip(row.visit_number)
        /\ db.patients[db.visits[v].patient].patient_id = StrStrip(row.patient_id)
        /\ db.sites[db.patients[db.visits[v].patient].site].site_number
              = StrStrip(row.site_number)
        /\ db.sites[db.patients[db.visits[v].patient].site].study = study}

\* the parse of extract f of type ft processed the last row of f
LastRowProcessed(f, result, ft) ==
    /\ f.file_type = ft
    /\ f.readable
    /\ RequiredCols(ft) \subseteq f.columns
    /\ Len(f.rows) >= 1
    /\ \A e \in DOMAIN result.errors : result.errors[e].row # Len(f.rows) - 1

\* the row has an actual_date cell that is not empty
HasActualDate(row) == "actual_date" \in DOMAIN row /\ row.actual_date # NAN

\* C22: after a visit_projections row is ingested there is exactly one Visit
\* of the row's patient with the row's visit_number; it is completed and not
\* missing when the row has an actual_date, and missing and not completed
\* when it has none, whatever the visit's flags were.
C22_ProjectionSetsVisitFlags ==
    [][(last'.call[1] = "parse"
        /\ LastRowProcessed(last'.call[2], last'.result, "visit_projections"))
       => \E row \in {last'.call[2].rows[Len(last'.call[2].rows)]} :
            /\ Cardinality(VisitsOfRow(Store', last'.call[2].study, row)) = 1
            /\ \A v \in VisitsOfRow(Store', last'.call[2].study, row) :
                  /\ visits'[v].is_completed = HasActualDate(row)
                  /\ visits'[v].is_missing = ~HasActualDate(row)
                  /\ visits'[v].scheduled_date = row.projected_date]_vars

\* the second extract ingested ended with a projection row that has an actual
\* date: the one visit of the store is completed and not missing
C22_Witness ==
    /\ last.call[1] = "parse"
    /\ LastRowProcessed(last.call[2], last.result, "visit_projections")
    /\ uploads = 2
    /\ Len(visits) = 1
    /\ Len(labs) = 0
    /\ visits[1].is_completed /\ ~visits[1].is_missing
    /\ visits[1].actual_date = Date(Today - 5)

\* C23: after a missing_visits row is ingested there is exactly one Visit of
\* the row's patient with the row's visit_number; it is missing and not
\* completed, also when it was completed before, and its scheduled_date is the
\* row's date when the row has one.
C23_MissingVisitSetsFlags ==
    [][(last'.call[1] = "parse"
        /\ LastRowProcessed(last'.call[2], last'.result, "missing_visits"))
       => \E row \in {last'.call[2].rows[Len(last'.call[2].rows)]} :
            /\ Cardinality(VisitsOfRow(Store', last'.call[2].study, row)) = 1
            /\ \A v \in VisitsOfRow(Store', last'.call[2].study, row) :
                  /\ visits'[v].is_missing
                  /\ ~visits'[v].is_completed
                  /\ ("scheduled_date" \in DOMAIN row /\ row.scheduled_date # NAN)
                        => visits'[v].scheduled_date = row.scheduled_date]_vars

\* a visit that was completed (it keeps its actual_date) has been ingested as
\* missing: it is missing and not completed
C23_Witness ==
    /\ last.call[1] = "parse"
    /\ LastRowProcessed(last.call[2], last.result, "missing_visits")
    /\ \E v \in DOMAIN visits :
          /\ visits[v].actual_date = Date(Today - 5)
          /\ visits[v].is_missing
          /\ ~visits[v].is_completed

\* the alerts of type t on site s that the step has created
Created(s, t) == AlertsIn(alerts', s, t) \ DOMAIN alerts

\* C24: check_dqi_alerts creates a dqi_drop alert exactly when the site's score
\* is below 60 and the site has no unresolved dqi_drop alert; the alert is
\* unresolved, critical below 45 and high from 45 up to but not including 60;
\* at exactly 60 none is created and at exactly 45 the alert is high.
C24_DqiDropThresholds ==
    [][\A s \in DOMAIN sites :
          last'.call = <<"check_dqi_alerts", s>>
          => /\ Cardinality(Created(s, "dqi_drop"))
                   = IF sites[s].dqi_score < 6000 /\ UnresolvedIn(alerts, s, "dqi_drop") = {}
                     THEN 1 ELSE 0
             /\ \A a \in Created(s, "dqi_drop") :
                   /\ ~alerts'[a].is_resolved
                   /\ sites[s].dqi_score < 4500 => alerts'[a].severity = "critical"
                   /\ sites[s].dqi_score >= 4500 => alerts'[a].severity = "high"
             /\ sites[s].dqi_score = 6000 => Created(s, "dqi_drop") = {}
             /\ \A a \in DOMAIN alerts : alerts'[a] = alerts[a]]_vars

\* the check has run on a site whose score is exactly 45: the site's one
\* unresolved dqi_drop alert is high
C24_Witness ==
    /\ last.call[1] = "check_dqi_alerts"
    /\ sites[last.call[2]].dqi_score = 4500
    /\ \E a \in UnresolvedIn(alerts, last.call[2], "dqi_drop") : alerts[a].severity = "high"

\* the unresolved queries of site s that have been open for 21 days or more
OldOpenQueries(s) ==
    {q \in DOMAIN queries :
        /\ patients[queries[q].patient].site = s
        /\ ~queries[q].is_resolved
        /\ queries[q].days_open >= 21}

\* C25: check_dqi_alerts creates a query_age alert, unresolved and of severity
\* high, exactly when the site has more than 10 unresolved queries with
\* days_open >= 21 and no unresolved query_age alert; with 10 or fewer it
\* creates none.
C25_QueryAgeThreshold ==
    [][\A s \in DOMAIN sites :
          last'.call = <<"check_dqi_alerts", s>>
          => /\ Cardinality(Created(s, "query_age"))
                   = IF /\ Cardinality(OldOpenQueries(s)) > 10
                        /\ UnresolvedIn(alerts, s, "query_age") = {}
                     THEN 1 ELSE 0
             /\ \A a \in Created(s, "query_age") :
                   ~alerts'[a].is_resolved /\ alerts'[a].severity = "high"]_vars

\* the check has run on a site with eleven old queries, a twelfth open for 20
\* days and a resolved one: the site has an unresolved query_age alert
C25_Witness ==
    /\ last.call[1] = "check_dqi_alerts"
    /\ Cardinality(OldOpenQueries(last.call[2])) = 11
    /\ \E a \in UnresolvedIn(alerts, last.call[2], "query_age") : alerts[a].severity = "high"

\* the visits of site s with is_missing=true
MissingVisitsAt(s) ==
    {v \in DOMAIN visits : visits[v].is_missing /\ patients[visits[v].patient].site = s}

\* C26: one pass of check_missing_visit_patterns creates a missing_visits
\* alert, unresolved and of severity medium, for exactly the sites that have 5
\* or more missing visits and no unresolved missing_visits alert; a site with
\* 4 or fewer gets none, and no alert of another type is created.
C26_MissingVisitPattern ==
    [][last'.call = <<"check_missing_visit_patterns">>
       => /\ \A s \in DOMAIN sites :
                /\ Cardinality(Created(s, "missing_visits"))
                      = IF /\ Cardinality(MissingVisitsAt(s)) >= 5
                           /\ UnresolvedIn(alerts, s, "missing_visits") = {}
                        THEN 1 ELSE 0
                /\ \A a \in Created(s, "missing_visits") :
                      ~alerts'[a].is_resolved /\ alerts'[a].severity = "medium"
                /\ Created(s, "dqi_drop") = {} /\ Created(s, "query_age") = {}
          /\ \A a \in DOMAIN alerts : alerts'[a] = alerts[a]]_vars

\* one pass has given both sites, of five missing visits each, their alert
C26_Witness ==
    /\ last.call = <<"check_missing_visit_patterns">>
    /\ \A s \in DOMAIN sites :
          /\ Cardinality(MissingVisitsAt(s)) = 5
          /\ \E a \in UnresolvedIn(alerts, s, "missing_visits") : alerts[a].severity = "medium"

\* the condition of the rule of alert type t holds of site s
RuleHolds(s, t) ==
    CASE t = "dqi_drop" -> sites[s].dqi_score < 6000
      [] t = "query_age" -> Cardinality(OldOpenQueries(s)) > 10
      [] t = "missing_visits" -> Cardinality(MissingVisitsAt(s)) >= 5

\* the call that has just returned evaluated the rule of type t on site s
Evaluated(call, s, t) ==
    IF t = "missing_visits" THEN call = <<"check_missing_visit_patterns">>
                            ELSE call = <<"check_dqi_alerts", s>>

\* the alerts the call that has just returned was to resolve
ToResolve(call) ==
    CASE call[1] = "resolve_alert" -> {call[2]}
      [] call[1] = "alert_action" -> IF call[3] = "" THEN {} ELSE {call[2]}
      [] call[1] = "resolve_all_alerts" -> DOMAIN alerts
      [] OTHER -> {}

\* C27: is_resolved alone suppresses a new alert. resolve_alert, alert_action
\* and resolve_all_alerts leave the alerts they resolve with is_resolved set;
\* and an evaluation of the rule of type T on a site whose condition holds and
\* which has no unresolved alert of type T creates exactly one new unresolved
\* alert of type T, however many resolved alerts of type T the site has.
C27_OnlyUnresolvedSuppresses ==
    [][/\ \A a \in ToResolve(last'.call) : alerts'[a].is_resolved
       /\ \A s \in DOMAIN sites, t \in {"dqi_drop", "query_age", "missing_visits"} :
             (/\ Evaluated(last'.call, s, t)
              /\ RuleHolds(s, t)
              /\ UnresolvedIn(alerts, s, t) = {})
             => /\ Cardinality(Created(s, t)) = 1
                /\ \A a \in Created(s, t) : ~alerts'[a].is_resolved
                /\ Cardinality(UnresolvedIn(alerts', s, t)) = 1]_vars

\* an alert raised by an evaluation has been resolved, and the evaluation that
\* has just returned has raised a second, unresolved alert of its type on its
\* site
C27_Witness ==
    /\ last.call[1] \in {"check_dqi_alerts", "check_missing_visit_patterns"}
    /\ Len(alerts) = 2
    /\ alerts[1].is_resolved /\ alerts[1].severity # "low"
    /\ ~alerts[2].is_resolved
    /\ alerts[2].site = alerts[1].site /\ alerts[2].alert_type = alerts[1].alert_type

\* C28: the natural keys stay unique while two ingestion runs handle rows of
\* the same keys: no two Sites have the same (study, site_number), no two
\* Patients the same (site, patient_id), no two Visits the same (patient,
\* visit_number) and no two LabData rows the same (patient, visit, lab_name,
\* test_name).
C28_NaturalKeysUnique ==
    /\ \A i, j \in DOMAIN sites :
          (sites[i].study = sites[j].study
           /\ sites[i].site_number = sites[j].site_number) => i = j
    /\ \A i, j \in DOMAIN patients :
          (patients[i].site = patients[j].site
           /\ patients[i].patient_id = patients[j].patient_id) => i = j
    /\ \A i, j \in DOMAIN visits :
          (visits[i].patient = visits[j].patient
           /\ visits[i].visit_number = visits[j].visit_number) => i = j
    /\ \A i, j \in DOMAIN labs :
          (labs[i].patient = labs[j].patient /\ labs[i].visit = labs[j].visit
           /\ labs[i].lab_name = labs[j].lab_name
           /\ labs[i].test_name = labs[j].test_name) => i = j

\* C29: whatever sequence of missing_labs, missing_visits and
\* visit_projections rows has been ingested, no Visit is at once completed
\* and missing.
C29_NeverCompletedAndMissing ==
    \A v \in DOMAIN visits : ~(visits[v].is_completed /\ visits[v].is_missing)

\* a visit that rows of all three extracts have written: a missing lab
\* refers to it, it keeps the actual_date of a projection and has the
\* scheduled_date of the missing_visits row that came last
C29_Witness ==
    \E v \in DOMAIN visits :
        /\ \E l \in DOMAIN labs : labs[l].visit = v
        /\ visits[v].actual_date = Date(Today - 5)
        /\ visits[v].scheduled_date = Date(Today + 7)
        /\ visits[v].is_missing /\ ~visits[v].is_completed

\* C30: calculate_site_dqi on a site without patients whose dqi_score is the
\* default 0 leaves the site's dqi_score and last_calculated and the
\* DQIHistory table as they were, and yet creates one critical dqi_drop alert
\* for the site when the site has no unresolved one (and none when it has).
C30_EmptySiteStillAlerts ==
    [][\A s \in DOMAIN sites :
          (/\ last'.call = <<"calculate_site_dqi", s>>
           /\ SitePatients(Store, s) = {}
           /\ sites[s].dqi_score = 0)
          => /\ sites'[s] = sites[s]
             /\ history' = history
             /\ Cardinality(Created(s, "dqi_drop"))
                   = IF UnresolvedIn(alerts, s, "dqi_drop") = {} THEN 1 ELSE 0
             /\ \A a \in Created(s, "dqi_drop") :
                   ~alerts'[a].is_resolved /\ alerts'[a].severity = "critical"]_vars

\* the task has run on a site without patients: the site was never scored
\* and has no snapshot, and it has an unresolved critical dqi_drop alert
C30_Witness ==
    /\ last.call[1] = "calculate_site_dqi"
    /\ SitePatients(Store, last.call[2]) = {}
    /\ sites[last.call[2]].dqi_score = 0
    /\ sites[last.call[2]].last_calculated = NullDate
    /\ \A h \in DOMAIN history : history[h].site # last.call[2]
    /\ \E a \in UnresolvedIn(alerts, last.call[2], "dqi_drop") :
          alerts[a].severity = "critical"

====
